---- MODULE Spec2Model ----
(***************************************************************************)
(* Model of the TripKit agent pipeline:                                    *)
(*   - the multi-agent workflow graph (build_multi_agent_workflow) and the *)
(*     routing table (route_to_agent) of the Orchestrator,                 *)
(*   - the image-synthesis retry loop (generate_with_retry),               *)
(*   - the LangGraph image-generation agent (ImageGenerationAgent).        *)
(* Each component has its own specification; the variables of the other    *)
(* components stay at their initial values.                                *)
(***************************************************************************)
EXTENDS Integers, Sequences, FiniteSets, TLC

\* ---------------------------------------------------------------- bounds
\* cap of the errors list length of OrchestratorState (saturating)
MaxErrors == 2
\* cap of the history counter of qa -> content_enrichment transitions (saturating)
MaxRework == 4
\* cap of the history counter of conversation turns (saturating)
MaxTurns == 8
\* largest max_attempts argument tried for generate_with_retry
MaxAttemptsArg == 4
\* longest destinations list handed to validate_recommendations
MaxDestinations == 4
\* most candidates vector_search returns
MaxCandidates == 4
\* most enrichment calls followed in one run
MaxEnrichCalls == 2
\* most agents handed to parallel_agent_execution
MaxAgents == 4
\* most route_to_agent calls followed in one run
MaxRouteCalls == 3
\* most timer callbacks followed in one run
MaxTicks == 9
\* most interruptions (and resumes) of one session
MaxResumes == 2
\* most repeated advance calls in one session
MaxReapply == 1

\* default of generate_with_retry's max_attempts parameter
DefaultMaxAttempts == 3

Min(a, b) == IF a <= b THEN a ELSE b

RECURSIVE Pow2(_)
Pow2(n) == IF n = 0 THEN 1 ELSE 2 * Pow2(n - 1)

VARIABLES
    \* --- multi-agent workflow (OrchestratorState + graph position)
    current_node,     \* node the compiled graph runs next
    is_complete,      \* state key read by the conversation router
    is_approved,      \* state key read by the qa router
    errors,           \* length of OrchestratorState.errors
    rework_taken,     \* history: number of qa -> content_enrichment transitions
    turns,            \* history: number of conversation node executions
    \* --- generate_with_retry
    gr_pc,            \* "idle" | "loop" | "returned" | "raised"
    max_attempts,     \* the max_attempts argument
    attempt,          \* loop variable of `for attempt in range(max_attempts)`
    prompt,           \* the prompt: number of sanitize_prompt applications so far
    trace,            \* history: calls, sanitizations, sleeps and log lines in order
    result,           \* the returned dict
    \* --- ImageGenerationAgent (ImageGenerationState + graph position)
    ag_node,          \* node the agent graph runs next, "returned" after generate()
    search_tools,     \* names of the tools in self.search_tools
    image_tools,      \* names of the tools in self.image_tools
    status,           \* ImageGenerationState.status
    error,            \* ImageGenerationState.error ("None" for None)
    extracted_keywords,   \* "empty" | "keywords" | "user_prompt"
    optimized_prompt,     \* "" | "optimized" | "user_prompt"
    generated_image_url,  \* "None" | "url"
    messages,         \* number of messages in the state
    tool_calls,       \* history: names of the MCP tools invoked, in order
    input_messages,   \* history: length of the messages list of the state object the
                      \* last node received, when it was called and when it returned
    \* --- Quality Assurance agent (QualityAssuranceState)
    generate_result,  \* what generate() returned: [status, error] ("none" before it returns)
    qa_pc,            \* "idle" | "recommendations" | "image" | "styling" | "safety"
                      \* | "verdict" | "done": the validation that runs next
    validation_results,   \* category -> result of its QAChecklist validation
    safety_result,    \* result of validate_safety
    qa_is_approved,   \* QualityAssuranceState.is_approved
    improvement_suggestions,  \* QualityAssuranceState.improvement_suggestions
    \* --- Recommendation agent (generate_recommendations)
    rec_outcome,      \* "idle" | "ready" | "completed"
    candidate_destinations,   \* what vector_search returned
    compatible_dests, \* what filter_by_vibe_compatibility kept
    diverse_dests,    \* the returned list (RecommendationState.destinations)
    filter_calls,     \* history: calls of filter_by_vibe_compatibility
    \* --- Vibe Extraction workflow (VibeExtractionState + graph position)
    ve_node,          \* node the vibe graph runs next, "raised" when a node raised
    ve_visited,       \* history: the nodes that have run, in order
    extracted_vibe,   \* VibeExtractionState.extracted_vibe: field -> value
    \* --- validate_image_quality
    iq_pc,            \* "idle" | "ready" | "returned"
    image_url,        \* the image_url argument
    download,         \* what requests.get / Image.open give: "ok" or the exception raised
    image_size,       \* image.size of the asset, <<width, height>>
    is_valid,         \* the returned bool
    \* --- Content Enrichment (recommend_props, generate_photography_angles)
    props_database,   \* the module-level PROPS_DATABASE: concept -> list of prop dicts
    enrich_calls,     \* history: the calls made so far, with arguments and outcome
    \* --- parallel_agent_execution
    par_pc,           \* "idle" | "called" | "gathering" | "returned"
    agents,           \* number of agents in the agents argument
    tasks,            \* task index -> "running" | "done" | "failed"
    successful_results,\* the returned list: indexes of the agents whose result it holds
    \* --- route_to_agent
    rt_pc,            \* "idle" | "state" | "routed": whether route_to_agent ran on current_step
    current_step,     \* OrchestratorState.current_step
    routed_agent,     \* what route_to_agent returned last ("none" before the first call)
    route_calls,      \* history: number of route_to_agent calls
    \* --- Hero background slider (Hero.tsx)
    hero_pc,          \* "idle" | "rendered" | "rerendered" | "running" | "unmounted"
    mounted,          \* useState(false)
    currentIndex,     \* useState(0)
    interval,         \* "none" | "active" | "cleared": the setInterval timer
    elapsed,          \* seconds since the timer was started or last fired
    ticks,            \* history: number of timer callbacks run
    \* --- concurrent generate() calls (ImageGenerationAgent.generate)
    thread_id,        \* the thread_id argument of each generate() call
    run_at,           \* the graph node each call is at ("idle" before generate is called)
    run_phase,        \* "waiting" | "running": whether the node's function is executing
    executions,       \* history: per thread_id and node, how many times the node was executed
    checkpoint_writes, \* history: per thread_id and node, how many checkpoints were written after it
    \* --- Supervisor: advance, checkpoint and resume
    cp_pc,            \* "idle" | "between" | "in_stage" | "interrupted" | "done"
    session_id,       \* the session the orchestrator instance works on
    cp_state,         \* the instance's in-memory session state: [current_step, agent_results]
    running_stage,    \* the stage that is executing ("none" between stages)
    store,            \* the checkpoint store: session id -> [found, blob]
    last_output,      \* the stage whose output advance applied last ("none": not at hand)
    saved_ids,        \* history: the session ids save_checkpoint was called with
    interrupted_stage,\* history: the stage that was executing when the instance was interrupted
    resumes,          \* history: number of resume calls
    reapplied         \* history: number of advance calls that repeated the last stage output

wfVars == <<current_node, is_complete, is_approved, errors, rework_taken, turns>>
grVars == <<gr_pc, max_attempts, attempt, prompt, trace, result>>
agVars == <<ag_node, search_tools, image_tools, status, error, extracted_keywords,
            optimized_prompt, generated_image_url, messages, tool_calls,
            input_messages, generate_result>>
qaVars == <<qa_pc, validation_results, safety_result, qa_is_approved,
            improvement_suggestions>>
recVars == <<rec_outcome, candidate_destinations, compatible_dests, diverse_dests,
             filter_calls>>
veVars == <<ve_node, ve_visited, extracted_vibe>>
iqVars == <<iq_pc, image_url, download, image_size, is_valid>>
enVars == <<props_database, enrich_calls>>
parVars == <<par_pc, agents, tasks, successful_results>>
rtVars == <<rt_pc, current_step, routed_agent, route_calls>>
heroVars == <<hero_pc, mounted, currentIndex, interval, elapsed, ticks>>
ccVars == <<thread_id, run_at, run_phase, executions, checkpoint_writes>>
cpVars == <<cp_pc, session_id, cp_state, running_stage, store, last_output, saved_ids, interrupted_stage, resumes, reapplied>>
vars == <<wfVars, grVars, agVars, qaVars, recVars, veVars, iqVars, enVars, parVars, rtVars, heroVars, ccVars, cpVars>>

\* ------------------------------------------------ multi-agent workflow
START == "__start__"
END == "__end__"

\* workflow.add_node(...)
Nodes == {"conversation", "recommendation", "image_generation",
          "content_enrichment", "qa"}

\* OrchestratorState.current_step Literal
Steps == {"init", "conversation", "recommendation", "image_generation",
          "enrichment", "qa", "complete"}

\* routing_map of route_to_agent, as a set of <<step, agent>> pairs
routing_map == {
    <<"init", "conversation_agent">>,
    <<"conversation", "recommendation_agent">>,
    <<"recommendation", "image_generation_agent">>,
    <<"image_generation", "content_enrichment_agent">>,
    <<"enrichment", "qa_agent">>,
    <<"qa", "complete">> }

\* routing_map.get(step, "complete"): the set of values the lookup can give
RouteToAgent(step) ==
    LET hits == {p[2] : p \in {q \in routing_map : q[1] = step}}
    IN IF hits = {} THEN {"complete"} ELSE hits

\* workflow.set_entry_point and workflow.add_edge
PlainEdges == {
    <<START, "conversation">>,
    <<"recommendation", "image_generation">>,
    <<"image_generation", "content_enrichment">>,
    <<"content_enrichment", "qa">> }

\* lambda state: "recommendation" if state.get("is_complete") else "conversation"
ConversationRouterBad(state) == "recommendation"
ConversationRouterStuck(state) == "conversation"
ConversationRouter(state) ==
    IF state.is_complete THEN "recommendation" ELSE "conversation"

\* lambda state: END if state.get("is_approved") else "content_enrichment"
QaRouterBad(state) ==
    IF state.is_approved THEN END ELSE "enrichment"
QaRouter(state) ==
    IF state.is_approved THEN END ELSE "content_enrichment"

\* workflow.add_conditional_edges: the nodes that carry a router
ConditionalNodes == {"conversation", "qa"}

Router(node, state) ==
    IF node = "conversation" THEN ConversationRouter(state) ELSE QaRouter(state)

\* the nodes the compiled graph moves to after `node` has run with result `state`
Successors(node, state) ==
    {e[2] : e \in {f \in PlainEdges : f[1] = node}}
        \cup (IF node \in ConditionalNodes THEN {Router(node, state)} ELSE {})

OrchestratorState ==
    [is_complete |-> is_complete, is_approved |-> is_approved, errors |-> errors]

WorkflowInit ==
    /\ current_node = START
    /\ is_complete = FALSE
    /\ is_approved = FALSE
    /\ errors = 0
    /\ rework_taken = 0
    /\ turns = 0

\* what a node may report besides its own flag: it appends an error or not
ErrorsAfter == {errors, Min(errors + 1, MaxErrors)}

\* graph.invoke: the entry point is entered
EnterWorkflow ==
    /\ current_node = START
    /\ current_node' \in Successors(START, OrchestratorState)
    /\ UNCHANGED <<is_complete, is_approved, errors, rework_taken, turns>>
    /\ UNCHANGED <<grVars, agVars, qaVars, recVars, veVars, iqVars, enVars, parVars, rtVars, heroVars, ccVars, cpVars>>

\* "Total conversation: 5-7 exchanges maximum"
MaxExchanges == 7

\* what conversation_agent_node may report after its exchange number n: it is
\* free to complete earlier (confidence reached), the last exchange completes
CompletionAfter(n) == IF n >= MaxExchanges THEN {TRUE} ELSE BOOLEAN

\* conversation_agent_node runs one turn and the conversation router is applied
ConversationNode ==
    /\ current_node = "conversation"
    /\ \E c \in CompletionAfter(turns + 1), e \in ErrorsAfter :
        /\ is_complete' = c
        /\ errors' = e
        /\ current_node' \in Successors("conversation",
               [is_complete |-> c, is_approved |-> is_approved, errors |-> e])
    /\ turns' = Min(turns + 1, MaxTurns)
    /\ UNCHANGED <<is_approved, rework_taken>>
    /\ UNCHANGED <<grVars, agVars, qaVars, recVars, veVars, iqVars, enVars, parVars, rtVars, heroVars, ccVars, cpVars>>

\* recommendation_agent_node runs and its plain edge is followed
RecommendationNode ==
    /\ current_node = "recommendation"
    /\ \E e \in ErrorsAfter :
        /\ errors' = e
        /\ current_node' \in Successors("recommendation",
               [is_complete |-> is_complete, is_approved |-> is_approved, errors |-> e])
    /\ UNCHANGED <<is_complete, is_approved, rework_taken, turns>>
    /\ UNCHANGED <<grVars, agVars, qaVars, recVars, veVars, iqVars, enVars, parVars, rtVars, heroVars, ccVars, cpVars>>

\* image_generation_agent_node runs and its plain edge is followed
ImageGenerationNode ==
    /\ current_node = "image_generation"
    /\ \E e \in ErrorsAfter :
        /\ errors' = e
        /\ current_node' \in Successors("image_generation",
               [is_complete |-> is_complete, is_approved |-> is_approved, errors |-> e])
    /\ UNCHANGED <<is_complete, is_approved, rework_taken, turns>>
    /\ UNCHANGED <<grVars, agVars, qaVars, recVars, veVars, iqVars, enVars, parVars, rtVars, heroVars, ccVars, cpVars>>

\* content_enrichment_agent_node runs and its plain edge is followed
ContentEnrichmentNode ==
    /\ current_node = "content_enrichment"
    /\ \E e \in ErrorsAfter :
        /\ errors' = e
        /\ current_node' \in Successors("content_enrichment",
               [is_complete |-> is_complete, is_approved |-> is_approved, errors |-> e])
    /\ UNCHANGED <<is_complete, is_approved, rework_taken, turns>>
    /\ UNCHANGED <<grVars, agVars, qaVars, recVars, veVars, iqVars, enVars, parVars, rtVars, heroVars, ccVars, cpVars>>

\* qa_agent_node runs and the qa router is applied
QaNode ==
    /\ current_node = "qa"
    /\ \E a \in BOOLEAN, e \in ErrorsAfter :
        /\ is_approved' = a
        /\ errors' = e
        /\ current_node' \in Successors("qa",
               [is_complete |-> is_complete, is_approved |-> a, errors |-> e])
    /\ rework_taken' = IF current_node' = "content_enrichment"
                       THEN Min(rework_taken + 1, MaxRework) ELSE rework_taken
    /\ UNCHANGED <<is_complete, turns>>
    /\ UNCHANGED <<grVars, agVars, qaVars, recVars, veVars, iqVars, enVars, parVars, rtVars, heroVars, ccVars, cpVars>>

WorkflowIdle == WorkflowInit

\* ------------------------------------------------ claims on the workflow
AllFlagStates ==
    [is_complete : BOOLEAN, is_approved : BOOLEAN, errors : 0..MaxErrors]

RouteTargets == {"conversation_agent", "recommendation_agent",
                 "image_generation_agent", "content_enrichment_agent",
                 "qa_agent", "complete"}

\* C1: routing is total and deterministic: after every node, for every
\* combination of the stage flags (is_complete, is_approved, error reported),
\* the graph has exactly one next node and it is a registered node or END;
\* route_to_agent gives exactly one agent for every value of current_step.
C1_RoutingTotalDeterministic ==
    /\ \A n \in Nodes \cup {START} : \A st \in AllFlagStates :
          /\ Cardinality(Successors(n, st)) = 1
          /\ Successors(n, st) \subseteq Nodes \cup {END}
    /\ \A s \in Steps :
          /\ Cardinality(RouteToAgent(s)) = 1
          /\ RouteToAgent(s) \subseteq RouteTargets
    /\ current_node \in Nodes \cup {START} =>
          Cardinality(Successors(current_node, OrchestratorState)) = 1
    /\ current_node \in Nodes \cup {START, END}

\* C1 witness: the qa router has been applied to a rejection that also
\* reported an error, and the run went on to exactly one node
C1_Witness ==
    /\ current_node = "content_enrichment"
    /\ rework_taken >= 1
    /\ ~is_approved
    /\ errors >= 1

\* the stage order of the state machine, with its two backward transitions
StageOrder == {
    <<START, "conversation">>,
    <<"conversation", "conversation">>,
    <<"conversation", "recommendation">>,
    <<"recommendation", "image_generation">>,
    <<"image_generation", "content_enrichment">>,
    <<"content_enrichment", "qa">>,
    <<"qa", "content_enrichment">>,
    <<"qa", END>> }

\* C2: every step of a run follows the stage order conversation,
\* recommendation, image_generation, enrichment, qa; recommendation is
\* entered only by a conversation turn that reported is_complete = TRUE;
\* the only backward steps are conversation -> conversation (is_complete
\* false) and qa -> content_enrichment (rejection).
C2_StageOrder ==
    [][ /\ <<current_node, current_node'>> \in StageOrder
        /\ (current_node' = "recommendation") => is_complete'
        /\ (current_node = "conversation" /\ current_node' = "conversation")
               => ~is_complete'
        /\ (current_node = "qa" /\ current_node' = "content_enrichment")
               => ~is_approved'
      ]_vars

\* C2 witness: a run that looped in conversation, went through every stage
\* and came back from qa to enrichment
C2_Witness ==
    /\ current_node = "qa"
    /\ turns >= 2
    /\ rework_taken >= 1
    /\ is_complete

\* C3: after qa, approved = TRUE leads to complete (END); approved = FALSE
\* leads to enrichment while fewer than 2 reworks were made and to failed
\* when 2 reworks (the budget) were made.
C3_QaRoutingWithBudget ==
    [][ current_node = "qa" =>
          /\ is_approved' => current_node' = END
          /\ (~is_approved' /\ rework_taken < 2)
                 => current_node' = "content_enrichment"
          /\ (~is_approved' /\ rework_taken = 2) => current_node' = "failed"
      ]_vars

\* C4: the qa -> enrichment back-edge is taken at most 2 times in a run.
C4_BackEdgeAtMostTwice == rework_taken <= 2

Terminal == current_node \in {END, "failed"}

\* C5: every session eventually reaches a terminal state (complete or
\* failed), whatever the stages report.
C5_EventuallyTerminal == <>Terminal

StepOfNode(node) == IF node = "content_enrichment" THEN "enrichment" ELSE node
NodeOfAgent(agent) ==
    CASE agent = "conversation_agent" -> "conversation"
      [] agent = "recommendation_agent" -> "recommendation"
      [] agent = "image_generation_agent" -> "image_generation"
      [] agent = "content_enrichment_agent" -> "content_enrichment"
      [] agent = "qa_agent" -> "qa"
      [] OTHER -> END

\* C35: the routing table and the compiled graph are the same state machine:
\* whenever the graph leaves a node, the node it moves to is the one that
\* route_to_agent names for that step, whatever the flags are.
C35_TableAgreesWithGraph ==
    [][(current_node \in Nodes) =>
         (current_node' \in {NodeOfAgent(a) : a \in RouteToAgent(StepOfNode(current_node))})]_vars

\* ------------------------------------------------ generate_with_retry
NoResult == [none |-> TRUE]

RetryIdle ==
    /\ gr_pc = "idle"
    /\ max_attempts = 0
    /\ attempt = 0
    /\ prompt = 0
    /\ trace = <<>>
    /\ result = NoResult

\* the function is called with some max_attempts; the loop is about to start
RetryInit ==
    /\ gr_pc = "loop"
    /\ max_attempts \in 1..MaxAttemptsArg
    /\ attempt = 0
    /\ prompt = 0
    /\ trace = <<>>
    /\ result = NoResult

\* history records
CallEvent(outcome) ==
    [ev |-> "call", attempt |-> attempt, prompt |-> prompt,
     outcome |-> outcome, secs |-> 0]
SanitizeEvent ==
    [ev |-> "sanitize", attempt |-> attempt, prompt |-> prompt,
     outcome |-> "-", secs |-> 0]
SleepEvent(secs) ==
    [ev |-> "sleep", attempt |-> attempt, prompt |-> prompt,
     outcome |-> "-", secs |-> secs]
LogEvent ==
    [ev |-> "log", attempt |-> attempt + 1, prompt |-> prompt,
     outcome |-> "-", secs |-> 0]

\* `for attempt in range(max_attempts)`: the loop body runs once more
InLoopOffByOne == gr_pc = "loop" /\ attempt <= max_attempts
InLoop == gr_pc = "loop" /\ attempt < max_attempts

\* `continue`, or falling off the end of the loop body
NextIteration == attempt' = attempt + 1 /\ gr_pc' = "loop"

\* return {"url", "revised_prompt", "attempts": attempt + 1, "success": True}
\* (revised_prompt is the provider's rewriting of the prompt it was sent)
SuccessResult(att, pr) ==
    [url |-> "url", revised_prompt |-> <<"revised", pr>>, attempts |-> att + 1,
     success |-> TRUE]

\* return {"success": False, "error": "Max retries exceeded"}
FailureResult == [success |-> FALSE, error |-> "Max retries exceeded"]

\* `if attempt == max_attempts - 1: raise` of the `except Exception` branch
OtherErrorRaisesAfterOneRetry(att, maxatt) == att >= 1 \/ att = maxatt - 1
OtherErrorRaises(att, maxatt) == att = maxatt - 1

\* the images.generate call succeeds
AttemptSucceeds ==
    /\ InLoop
    /\ trace' = Append(trace, CallEvent("success"))
    /\ result' = SuccessResult(attempt, prompt)
    /\ gr_pc' = "returned"
    /\ UNCHANGED <<max_attempts, attempt, prompt>>
    /\ UNCHANGED <<wfVars, agVars, qaVars, recVars, veVars, iqVars, enVars, parVars, rtVars, heroVars, ccVars, cpVars>>

\* BadRequestError with "content_policy" in its text: sanitize and continue
AttemptContentPolicy ==
    /\ InLoop
    /\ prompt' = prompt + 1
    /\ trace' = trace \o <<CallEvent("content_policy"), SanitizeEvent>>
    /\ NextIteration
    /\ UNCHANGED <<max_attempts, result>>
    /\ UNCHANGED <<wfVars, agVars, qaVars, recVars, veVars, iqVars, enVars, parVars, rtVars, heroVars, ccVars, cpVars>>

\* any other BadRequestError: re-raised at once
AttemptBadRequest ==
    /\ InLoop
    /\ trace' = Append(trace, CallEvent("bad_request"))
    /\ gr_pc' = "raised"
    /\ UNCHANGED <<max_attempts, attempt, prompt, result>>
    /\ UNCHANGED <<wfVars, agVars, qaVars, recVars, veVars, iqVars, enVars, parVars, rtVars, heroVars, ccVars, cpVars>>

\* RateLimitError: await asyncio.sleep(2 ** attempt), then continue
AttemptRateLimitResanitizes ==
    /\ InLoop
    /\ prompt' = prompt + 1
    /\ trace' = trace \o <<CallEvent("rate_limit"), SleepEvent(Pow2(attempt))>>
    /\ NextIteration
    /\ UNCHANGED <<max_attempts, result>>
    /\ UNCHANGED <<wfVars, agVars, qaVars, recVars, veVars, iqVars, enVars, parVars, rtVars, heroVars, ccVars, cpVars>>
AttemptRateLimit ==
    /\ InLoop
    /\ trace' = trace \o <<CallEvent("rate_limit"), SleepEvent(Pow2(attempt))>>
    /\ NextIteration
    /\ UNCHANGED <<max_attempts, prompt, result>>
    /\ UNCHANGED <<wfVars, agVars, qaVars, recVars, veVars, iqVars, enVars, parVars, rtVars, heroVars, ccVars, cpVars>>

\* any other Exception: logged, re-raised on the last attempt only
AttemptOtherError ==
    /\ InLoop
    /\ trace' = trace \o <<CallEvent("other"), LogEvent>>
    /\ IF OtherErrorRaises(attempt, max_attempts)
       THEN gr_pc' = "raised" /\ attempt' = attempt
       ELSE NextIteration
    /\ UNCHANGED <<max_attempts, prompt, result>>
    /\ UNCHANGED <<wfVars, agVars, qaVars, recVars, veVars, iqVars, enVars, parVars, rtVars, heroVars, ccVars, cpVars>>

\* the loop is exhausted: the return after the loop
LoopExhausted ==
    /\ gr_pc = "loop"
    /\ attempt >= max_attempts
    /\ result' = FailureResult
    /\ gr_pc' = "returned"
    /\ UNCHANGED <<max_attempts, attempt, prompt, trace>>
    /\ UNCHANGED <<wfVars, agVars, qaVars, recVars, veVars, iqVars, enVars, parVars, rtVars, heroVars, ccVars, cpVars>>

Calls == {i \in DOMAIN trace : trace[i].ev = "call"}
NumCalls == Cardinality(Calls)
CallsWith(outcomes) == {i \in Calls : trace[i].outcome \in outcomes}
LastCall == CHOOSE i \in Calls : \A j \in Calls : j <= i
Finished == gr_pc \in {"returned", "raised"}

\* ------------------------------------------------ claims on generate_with_retry
\* the kinds of the failed calls, in attempt order
FailedCalls == SelectSeq(trace, LAMBDA e : e.ev = "call" /\ e.outcome # "success")
FailureKinds == [i \in 1..Len(FailedCalls) |-> FailedCalls[i].outcome]

\* the failure reasons a returned dict carries
RecordedReasons(res) ==
    IF "failure_reasons" \in DOMAIN res THEN res.failure_reasons ELSE <<>>

\* C7: whatever the provider answers, generate_with_retry makes at most
\* max_attempts synthesis calls: one per loop iteration, never one more.
C7_AtMostMaxAttemptsCalls ==
    /\ NumCalls <= max_attempts
    /\ attempt <= max_attempts
    /\ gr_pc = "loop" => NumCalls = attempt

\* C7 witness: a run with the default budget that used every attempt on a
\* mix of content-policy rejections and rate limits and then gave up
C7_Witness ==
    /\ gr_pc = "returned"
    /\ max_attempts = DefaultMaxAttempts
    /\ NumCalls = max_attempts
    /\ CallsWith({"content_policy"}) # {}
    /\ CallsWith({"rate_limit"}) # {}
    /\ ~result.success

\* C8: a success on the k-th call reports attempts = k and carries the k-1
\* failure reasons of the failed attempts, in attempt order.
C8_SuccessCarriesFailureReasons ==
    (gr_pc = "returned" /\ result.success) =>
        /\ result.attempts = NumCalls
        /\ Len(RecordedReasons(result)) = NumCalls - 1
        /\ RecordedReasons(result) = FailureKinds

\* C9: when all max_attempts attempts fail, the failure is reported as a
\* returned value (success = False with an error) and nothing is raised.
C9_ExhaustionReturnsFailureValue ==
    (Finished /\ NumCalls = max_attempts /\ CallsWith({"success"}) = {}) =>
        /\ gr_pc = "returned"
        /\ ~result.success
        /\ "error" \in DOMAIN result

\* errors that are neither a content-policy rejection nor a rate limit
OtherKinds == {"other", "bad_request"}

\* C10 as stated: an exception that is neither a content-policy rejection
\* nor a rate limit is retried exactly once: the second one ends the run, so
\* a third synthesis call never follows two such errors.
C10_OtherErrorRetriedExactlyOnce ==
    /\ Cardinality(CallsWith({"other"})) <= 2
    /\ Cardinality(CallsWith({"other"})) = 2 => Finished

\* C10 amended: an exception that is neither BadRequestError nor
\* RateLimitError is retried as long as an attempt of the budget is left and
\* ends the run only when it occurs on the last attempt; a BadRequestError
\* without content_policy ends the run at once; no call follows the end.
C10_OtherErrorRetriedWithinBudget ==
    /\ \A i \in CallsWith({"other"}) :
          /\ (trace[i].attempt < max_attempts - 1 /\ i = LastCall)
                 => (gr_pc = "loop" /\ attempt = trace[i].attempt + 1)
          /\ trace[i].attempt = max_attempts - 1
                 => (gr_pc = "raised" /\ i = LastCall)
    /\ \A i \in CallsWith({"bad_request"}) : gr_pc = "raised" /\ i = LastCall
    /\ gr_pc = "raised" => trace[LastCall].outcome \in OtherKinds
    /\ NumCalls <= max_attempts

\* C10 witness: with a budget of at least 3, three such errors in a row were
\* all attempted before the run ended
C10_Witness ==
    /\ max_attempts >= 3
    /\ Cardinality(CallsWith({"other"})) >= 3
    /\ gr_pc = "raised"

\* the prompts a returned dict stores (the dict has no prompt key)
StoredPrompts(res) == IF "prompt" \in DOMAIN res THEN {res.prompt} ELSE {}

\* C11: after a content-policy rejection the next synthesis call follows
\* with no wait in between and with the sanitized prompt; when that call
\* succeeds the result counts one attempt more and stores the sanitized
\* prompt, which differs from the original.
C11_SanitizedImmediateRetry ==
    \A i \in CallsWith({"content_policy"}) :
        (i + 2 \in DOMAIN trace) =>
            /\ trace[i + 1].ev = "sanitize"
            /\ trace[i + 2].ev = "call"
            /\ trace[i + 2].prompt = trace[i].prompt + 1
            /\ (trace[i + 2].outcome = "success") =>
                  /\ result.attempts = (trace[i].attempt + 1) + 1
                  /\ StoredPrompts(result) = {trace[i + 2].prompt}
                  /\ trace[i + 2].prompt # 0

Sanitizations == {i \in DOMAIN trace : trace[i].ev = "sanitize"}

\* C12 as stated: within one run sanitize_prompt is applied at most once.
C12_SanitizedAtMostOnce == Cardinality(Sanitizations) <= 1

\* C12 amended: sanitize_prompt is applied exactly once after every
\* content-policy rejection (so several times when several rejections
\* occur) and nowhere else: every call uses the prompt sanitized once per
\* earlier rejection, and a retry after a rate limit or another error
\* reuses the prompt of the failed call unchanged.
C12_SanitizedOncePerRejection ==
    /\ Cardinality(Sanitizations) = Cardinality(CallsWith({"content_policy"}))
    /\ \A i \in Sanitizations :
          i > 1 /\ trace[i - 1].ev = "call" /\ trace[i - 1].outcome = "content_policy"
    /\ \A i \in Calls :
          trace[i].prompt =
              Cardinality({j \in CallsWith({"content_policy"}) : j < i})
    /\ prompt = Cardinality(CallsWith({"content_policy"}))

\* C12 witness: two rejections were sanitized, and a rate-limit retry then
\* reused the twice-sanitized prompt
C12_Witness ==
    /\ Cardinality(Sanitizations) = 2
    /\ \E i \in CallsWith({"rate_limit"}) :
          /\ trace[i].prompt = 2
          /\ \E j \in Calls : j > i /\ trace[j].prompt = 2

Sleeps == {i \in DOMAIN trace : trace[i].ev = "sleep"}

\* C13: a rate limit is followed by a wait of 2^i after the attempt with
\* index i, and every wait is followed by another attempt: there is no
\* wait after the last attempt of the budget.
C13_BackoffOnlyBeforeRetry ==
    /\ \A i \in CallsWith({"rate_limit"}) :
          i + 1 \in Sleeps /\ trace[i + 1].secs = Pow2(trace[i].attempt)
    /\ \A i \in Sleeps : trace[i].attempt < max_attempts - 1

\* ------------------------------------------------ ImageGenerationAgent
\* the agent before generate() is called, with no tools configured
AgentIdle ==
    /\ ag_node = "idle"
    /\ search_tools = {}
    /\ image_tools = {}
    /\ status = "pending"
    /\ error = "None"
    /\ extracted_keywords = "empty"
    /\ optimized_prompt = ""
    /\ generated_image_url = "None"
    /\ messages = 0
    /\ tool_calls = <<>>
    /\ input_messages = [before |-> 0, after |-> 0]
    /\ generate_result = [status |-> "none", error |-> "None"]

\* __init__ with some tool lists, then generate() builds initial_state
AgentInit ==
    /\ ag_node = START
    /\ search_tools \in SUBSET {"extract_keywords"}
    /\ image_tools \in SUBSET {"optimize_prompt_for_image", "generate_image"}
    /\ status = "pending"
    /\ error = "None"
    /\ extracted_keywords = "empty"
    /\ optimized_prompt = ""
    /\ generated_image_url = "None"
    /\ messages = 1
    /\ tool_calls = <<>>
    /\ input_messages = [before |-> 0, after |-> 0]
    /\ generate_result = [status |-> "none", error |-> "None"]

\* workflow.set_entry_point / add_edge of _build_graph
AgentEdges == {
    <<START, "extract_keywords">>,
    <<"extract_keywords", "optimize_prompt">>,
    <<"optimize_prompt", "generate_image">>,
    <<"generate_image", END>> }

\* the node the agent graph moves to after `node` returned with status `st`
AgentSuccessor(node, st) ==
    CHOOSE n \in {e[2] : e \in {f \in AgentEdges : f[1] = node}} : TRUE

\* the keys of ImageGenerationOutput
ImageGenerationOutput == {"messages", "generated_image_url", "image_metadata", "status"}

\* what tool.ainvoke can do: return the tool's normal result, return the
\* tool's own error result (the tool caught an exception), or raise
ToolOutcomes == {"ok", "tool_error", "raise"}

\* str(e) of an exception the provider behind a tool raises
ProviderMessages == {"Rate limit reached for org-1", "Incorrect API key provided: sk-1"}

\* f"Image generation failed: {result.get('error')}" where the tool's error
\* is str(e) of the provider's exception
ImageGenerationFailed(m) ==
    IF m = "Rate limit reached for org-1"
    THEN "Image generation failed: Rate limit reached for org-1"
    ELSE "Image generation failed: Incorrect API key provided: sk-1"

\* the input state's messages list when the node was called and when it
\* returned: state["messages"].append(...) runs on the success path only
InputMessages(appended) ==
    [before |-> messages, after |-> IF appended THEN messages + 1 ELSE messages]

\* graph.ainvoke(initial_state): the entry point is entered
AgentEnter ==
    /\ ag_node = START
    /\ ag_node' = AgentSuccessor(START, status)
    /\ UNCHANGED <<search_tools, image_tools, status, error, extracted_keywords,
                   optimized_prompt, generated_image_url, messages, tool_calls,
                   input_messages, generate_result>>
    /\ UNCHANGED <<wfVars, grVars, qaVars, recVars, veVars, iqVars, enVars, parVars, rtVars, heroVars, ccVars, cpVars>>

\* extract_keywords_node
ExtractKeywordsNode ==
    /\ ag_node = "extract_keywords"
    /\ IF "extract_keywords" \notin search_tools
       THEN \* raise ValueError("extract_keywords tool not found")
            /\ status' = "failed"
            /\ error' = "extract_keywords tool not found"
            /\ UNCHANGED <<extracted_keywords, messages, tool_calls>>
       ELSE /\ tool_calls' = Append(tool_calls, "extract_keywords")
            /\ \E o \in ToolOutcomes, m \in ProviderMessages :
                 IF o = "raise"
                 THEN /\ status' = "failed"
                      /\ error' = m
                      /\ UNCHANGED <<extracted_keywords, messages>>
                 ELSE /\ extracted_keywords' =
                             (IF o = "ok" THEN "keywords" ELSE "user_prompt")
                      /\ messages' = messages + 1
                      /\ status' = "extracting"
                      /\ UNCHANGED error
    /\ ag_node' = AgentSuccessor("extract_keywords", status')
    /\ UNCHANGED generate_result
    /\ input_messages' = InputMessages(messages' # messages)
    /\ UNCHANGED <<search_tools, image_tools, optimized_prompt, generated_image_url>>
    /\ UNCHANGED <<wfVars, grVars, qaVars, recVars, veVars, iqVars, enVars, parVars, rtVars, heroVars, ccVars, cpVars>>

\* optimize_prompt_node
OptimizePromptNode ==
    /\ ag_node = "optimize_prompt"
    /\ IF "optimize_prompt_for_image" \notin image_tools
       THEN /\ status' = "failed"
            /\ error' = "optimize_prompt_for_image tool not found"
            /\ UNCHANGED <<optimized_prompt, messages, tool_calls>>
       ELSE /\ tool_calls' = Append(tool_calls, "optimize_prompt_for_image")
            /\ \E o \in ToolOutcomes, m \in ProviderMessages :
                 IF o = "raise"
                 THEN /\ status' = "failed"
                      /\ error' = m
                      /\ UNCHANGED <<optimized_prompt, messages>>
                 ELSE /\ optimized_prompt' =
                             (IF o = "ok" THEN "optimized" ELSE "user_prompt")
                      /\ messages' = messages + 1
                      /\ status' = "generating"
                      /\ UNCHANGED error
    /\ ag_node' = AgentSuccessor("optimize_prompt", status')
    /\ UNCHANGED generate_result
    /\ input_messages' = InputMessages(messages' # messages)
    /\ UNCHANGED <<search_tools, image_tools, extracted_keywords, generated_image_url>>
    /\ UNCHANGED <<wfVars, grVars, qaVars, recVars, veVars, iqVars, enVars, parVars, rtVars, heroVars, ccVars, cpVars>>

\* generate_image_node
GenerateImageNode ==
    /\ ag_node = "generate_image"
    /\ IF "generate_image" \notin image_tools
       THEN /\ status' = "failed"
            /\ error' = "generate_image tool not found"
            /\ UNCHANGED <<generated_image_url, messages, tool_calls>>
       ELSE /\ tool_calls' = Append(tool_calls, "generate_image")
            /\ \E o \in ToolOutcomes, m \in ProviderMessages :
                 IF o = "raise"
                 THEN /\ status' = "failed"
                      /\ error' = m
                      /\ UNCHANGED <<generated_image_url, messages>>
                 ELSE IF o = "tool_error"
                 THEN \* url is None: raise ValueError("Image generation failed: ...")
                      /\ status' = "failed"
                      /\ error' = ImageGenerationFailed(m)
                      /\ UNCHANGED <<generated_image_url, messages>>
                 ELSE /\ generated_image_url' = "url"
                      /\ messages' = messages + 1
                      /\ status' = "completed"
                      /\ UNCHANGED error
    /\ ag_node' = AgentSuccessor("generate_image", status')
    /\ UNCHANGED generate_result
    /\ input_messages' = InputMessages(messages' # messages)
    /\ UNCHANGED <<search_tools, image_tools, extracted_keywords, optimized_prompt>>
    /\ UNCHANGED <<wfVars, grVars, qaVars, recVars, veVars, iqVars, enVars, parVars, rtVars, heroVars, ccVars, cpVars>>

\* the value of result.get(key) where the compiled graph was given
\* output=ImageGenerationOutput: the key's state value when ainvoke returns
\* the whole state, None when it returns the output schema's keys only
ResultGet(key, value) ==
    IF key \in ImageGenerationOutput THEN {value} ELSE {value, "None"}

\* graph.ainvoke returns and generate() returns its dict
AgentReturn ==
    /\ ag_node = END
    /\ ag_node' = "returned"
    /\ \E e \in ResultGet("error", error) :
         generate_result' = [status |-> status, error |-> e]
    /\ UNCHANGED <<search_tools, image_tools, status, error, extracted_keywords,
                   optimized_prompt, generated_image_url, messages, tool_calls,
                   input_messages>>
    /\ UNCHANGED <<wfVars, grVars, qaVars, recVars, veVars, iqVars, enVars, parVars, rtVars, heroVars, ccVars, cpVars>>

\* ------------------------------------------------ claims on the agent
\* C6: failed is absorbing: once the status is failed, no later node
\* execution changes it.
C6_FailedIsAbsorbing == [][status = "failed" => status' = "failed"]_vars

\* C28: a node leaves the state object it receives as it was: its messages
\* list has the same length when the node returns as when it was called.
C28_InputStateNotMutated == input_messages.after = input_messages.before

\* texts that carry the provider's exception message
RawProviderTexts ==
    ProviderMessages \cup {ImageGenerationFailed(m) : m \in ProviderMessages}

C36_NoToolCallAfterFailed == [][status = "failed" => tool_calls' = tool_calls]_vars

\* C37: generate() returns a terminal status, completed or failed, and a
\* failed result carries an error that is not None.
C37_TerminalStatusAndError ==
    ag_node = "returned" =>
        /\ generate_result.status \in {"completed", "failed"}
        /\ generate_result.status = "failed" => generate_result.error # "None"

\* C38: whenever the status is completed, an image reference is present and
\* no error is recorded.
C38_CompletedHasImageAndNoError ==
    status = "completed" => (generated_image_url # "None" /\ error = "None")

\* ------------------------------------------------ Quality Assurance agent
QaIdle ==
    /\ qa_pc = "idle"
    /\ validation_results = <<>>
    /\ safety_result = NoResult
    /\ qa_is_approved = FALSE
    /\ improvement_suggestions = <<>>

\* the QA agent is handed the content to validate
QaInit ==
    /\ qa_pc = "recommendations"
    /\ validation_results = <<>>
    /\ safety_result = NoResult
    /\ qa_is_approved = FALSE
    /\ improvement_suggestions = <<>>

\* the categories and the keys of their `checks` dicts, in dict order
Categories == <<"recommendations", "image", "styling">>
RecommendationChecks == <<"count", "all_have_match_reason", "photography_scores",
                          "safety_ratings", "descriptions_length", "no_duplicates">>
ImageChecks == <<"url_valid", "prompt_exists", "metadata_complete",
                 "generation_time_acceptable">>
StylingChecks == <<"camera_recommended", "film_stock_complete",
                   "camera_settings_valid", "outfit_has_palette", "props_count",
                   "angles_count">>
ChecksOf(category) ==
    IF category = "recommendations" THEN RecommendationChecks
    ELSE IF category = "image" THEN ImageChecks ELSE StylingChecks

Range(seq) == {seq[i] : i \in DOMAIN seq}

\* sum(checks.values()): the number of checks that are True
NumTrue(checks) == Cardinality({k \in DOMAIN checks : checks[k]})

\* {"passed": all(checks.values()), "checks": checks,
\*  "quality_score": sum(checks.values()) / len(checks)}
\* the quotient is kept as <<numerator, denominator>>
ChecklistResultAnyPassed(checks) ==
    [passed |-> \E k \in DOMAIN checks : checks[k],
     checks |-> checks,
     quality_score |-> <<NumTrue(checks), Cardinality(DOMAIN checks)>>]
ChecklistResult(checks) ==
    [passed |-> \A k \in DOMAIN checks : checks[k],
     checks |-> checks,
     quality_score |-> <<NumTrue(checks), Cardinality(DOMAIN checks)>>]

\* destinations the recommendation check is tried on: three good ones and
\* variants of the third with one field off
GoodDestination(id) ==
    [id |-> id, matchReason |-> TRUE, photographyScore |-> 8, safetyRating |-> 9,
     description_len |-> 120]
DestinationPool ==
    {GoodDestination(1), GoodDestination(2), GoodDestination(3)}
    \cup {[GoodDestination(3) EXCEPT !.matchReason = FALSE]}
    \cup {[GoodDestination(3) EXCEPT !.photographyScore = v] : v \in {0, 11}}
    \cup {[GoodDestination(3) EXCEPT !.safetyRating = v] : v \in {0, 11}}
    \cup {[GoodDestination(3) EXCEPT !.description_len = v] : v \in {49, 301}}
DestinationLists(max) ==
    UNION {[1..n -> DestinationPool] : n \in 0..max}

\* QAChecklist.validate_recommendations
ValidateRecommendations(destinations) ==
    LET ds == Range(destinations)
        idxs == DOMAIN destinations
    IN ChecklistResult(
        [k \in Range(RecommendationChecks) |->
            CASE k = "count" -> Len(destinations) = 3
              [] k = "all_have_match_reason" -> \A d \in ds : d.matchReason
              [] k = "photography_scores" ->
                    \A d \in ds : 1 <= d.photographyScore /\ d.photographyScore <= 10
              [] k = "safety_ratings" ->
                    \A d \in ds : 1 <= d.safetyRating /\ d.safetyRating <= 10
              [] k = "descriptions_length" ->
                    \A d \in ds : 50 <= d.description_len /\ d.description_len <= 300
              [] OTHER ->
                    Cardinality({destinations[i].id : i \in idxs}) = Len(destinations)])

\* image data the image check is tried on
ImageDataPool ==
    [url : {"None", "", "http://img", "https://img"},
     prompt : {"", "prompt"},
     metadata : {{"model", "size", "quality"}, {"model", "size"}, {}},
     generationTime : {29999, 30000, 99999}]

Truthy(str) == str \notin {"None", ""}
StartsWithHttps(str) == str \in {"https://img"}

\* QAChecklist.validate_image
ValidateImage(image_data) ==
    ChecklistResult(
        [k \in Range(ImageChecks) |->
            CASE k = "url_valid" ->
                    Truthy(image_data.url) /\ StartsWithHttps(image_data.url)
              [] k = "prompt_exists" -> Truthy(image_data.prompt)
              [] k = "metadata_complete" ->
                    {"model", "size", "quality"} \subseteq image_data.metadata
              [] OTHER -> image_data.generationTime < 30000])

\* styling packages the styling check is tried on
StylingPool ==
    [cameraModel : {"", "Canon AE-1"},
     filmStock : {"None", "unnamed", "named"},
     cameraSettings : {{"aperture", "shutterSpeed", "iso"}, {"aperture", "iso"}},
     colorPalette : {0, 4},
     props : {1, 2, 4, 5},
     bestAngles : {2, 3, 5, 6}]

\* QAChecklist.validate_styling_package
ValidateStylingPackage(styling) ==
    ChecklistResult(
        [k \in Range(StylingChecks) |->
            CASE k = "camera_recommended" -> Truthy(styling.cameraModel)
              [] k = "film_stock_complete" -> styling.filmStock = "named"
              [] k = "camera_settings_valid" ->
                    {"aperture", "shutterSpeed", "iso"} \subseteq styling.cameraSettings
              [] k = "outfit_has_palette" -> styling.colorPalette > 0
              [] k = "props_count" -> 2 <= styling.props /\ styling.props <= 4
              [] OTHER -> 3 <= styling.bestAngles /\ styling.bestAngles <= 5])

\* validate_safety: the moderation verdict, image_safe is always True
ValidateSafetyIgnoresFlag(flagged) ==
    [text_safe |-> ~flagged, image_safe |-> TRUE, approved |-> TRUE]
ValidateSafety(flagged) ==
    [text_safe |-> ~flagged, image_safe |-> TRUE, approved |-> ~flagged /\ TRUE]

\* the failed checks of a result, in dict order, as get_improvement_suggestion
\* (category, check) messages
FailedSuggestions(category, res) ==
    LET failed == SelectSeq(ChecksOf(category), LAMBDA k : ~res.checks[k])
    IN [i \in 1..Len(failed) |-> <<category, failed[i]>>]

OverallMessage == <<"overall", "Overall quality below threshold">>

RECURSIVE Product(_, _)
Product(results, cats) ==
    IF cats = <<>> THEN 1
    ELSE results[Head(cats)].quality_score[2] * Product(results, Tail(cats))

RECURSIVE ScaledSum(_, _, _)
ScaledSum(results, cats, scale) ==
    IF cats = <<>> THEN 0
    ELSE LET q == results[Head(cats)].quality_score
         IN q[1] * (scale \div q[2]) + ScaledSum(results, Tail(cats), scale)

\* overall_quality < 0.8, where overall_quality is the mean quality_score
OverallBelowThreshold(results, cats) ==
    LET scale == Product(results, cats)
    IN 10 * ScaledSum(results, cats, scale) < 8 * Len(cats) * scale

RECURSIVE CategorySuggestions(_, _)
CategorySuggestions(results, cats) ==
    IF cats = <<>> THEN <<>>
    ELSE (IF ~results[Head(cats)].passed
          THEN FailedSuggestions(Head(cats), results[Head(cats)]) ELSE <<>>)
         \o CategorySuggestions(results, Tail(cats))

\* generate_improvements(validation_results)
GenerateImprovementsFirstOnly(results) ==
    LET cats == SelectSeq(Categories, LAMBDA c : c \in DOMAIN results)
        per == CategorySuggestions(results, cats)
    IN (IF per = <<>> THEN <<>> ELSE <<Head(per)>>)
       \o (IF OverallBelowThreshold(results, cats) THEN <<OverallMessage>> ELSE <<>>)
GenerateImprovements(results) ==
    LET cats == SelectSeq(Categories, LAMBDA c : c \in DOMAIN results)
    IN CategorySuggestions(results, cats)
       \o (IF OverallBelowThreshold(results, cats) THEN <<OverallMessage>> ELSE <<>>)

\* the verdict of the QA agent: every checklist passed and moderation clear
QaVerdict(results, safety) ==
    /\ \A c \in DOMAIN results : results[c].passed
    /\ safety.approved

WithResult(category, res) ==
    [c \in DOMAIN validation_results \cup {category} |->
        IF c = category THEN res ELSE validation_results[c]]

QaValidateRecommendations ==
    /\ qa_pc = "recommendations"
    /\ \E destinations \in DestinationLists(MaxDestinations) :
          validation_results' =
              WithResult("recommendations", ValidateRecommendations(destinations))
    /\ qa_pc' = "image"
    /\ UNCHANGED <<safety_result, qa_is_approved, improvement_suggestions>>
    /\ UNCHANGED <<wfVars, grVars, agVars, recVars, veVars, iqVars, enVars, parVars, rtVars, heroVars, ccVars, cpVars>>

QaValidateImage ==
    /\ qa_pc = "image"
    /\ \E image_data \in ImageDataPool :
          validation_results' = WithResult("image", ValidateImage(image_data))
    /\ qa_pc' = "styling"
    /\ UNCHANGED <<safety_result, qa_is_approved, improvement_suggestions>>
    /\ UNCHANGED <<wfVars, grVars, agVars, recVars, veVars, iqVars, enVars, parVars, rtVars, heroVars, ccVars, cpVars>>

QaValidateStyling ==
    /\ qa_pc = "styling"
    /\ \E styling \in StylingPool :
          validation_results' = WithResult("styling", ValidateStylingPackage(styling))
    /\ qa_pc' = "safety"
    /\ UNCHANGED <<safety_result, qa_is_approved, improvement_suggestions>>
    /\ UNCHANGED <<wfVars, grVars, agVars, recVars, veVars, iqVars, enVars, parVars, rtVars, heroVars, ccVars, cpVars>>

QaValidateSafety ==
    /\ qa_pc = "safety"
    /\ \E flagged \in BOOLEAN : safety_result' = ValidateSafety(flagged)
    /\ qa_pc' = "verdict"
    /\ UNCHANGED <<validation_results, qa_is_approved, improvement_suggestions>>
    /\ UNCHANGED <<wfVars, grVars, agVars, recVars, veVars, iqVars, enVars, parVars, rtVars, heroVars, ccVars, cpVars>>

\* the agent sets is_approved and the improvement suggestions
QaDecide ==
    /\ qa_pc = "verdict"
    /\ qa_is_approved' = QaVerdict(validation_results, safety_result)
    /\ improvement_suggestions' = GenerateImprovements(validation_results)
    /\ qa_pc' = "done"
    /\ UNCHANGED <<validation_results, safety_result>>
    /\ UNCHANGED <<wfVars, grVars, agVars, recVars, veVars, iqVars, enVars, parVars, rtVars, heroVars, ccVars, cpVars>>

\* ------------------------------------------------ Quality Assurance claims
QaDone == qa_pc = "done"

\* the <<category, check>> pairs whose predicate failed
FailedPredicates ==
    {<<c, k>> \in UNION {{c} \X Range(ChecksOf(c)) : c \in DOMAIN validation_results} :
        ~validation_results[c].checks[k]}

C15_QualityScoreIsFractionPassed ==
    \A c \in DOMAIN validation_results :
        LET r == validation_results[c]
        IN /\ DOMAIN r.checks = Range(ChecksOf(c))
           /\ r.quality_score[1] = Cardinality({k \in DOMAIN r.checks : r.checks[k]})
           /\ r.quality_score[2] = Len(ChecksOf(c))
           /\ r.passed <=> (r.quality_score[1] = r.quality_score[2])

\* one category fails a single predicate of six, another passes all of its four
C15_Witness ==
    /\ DOMAIN validation_results = Range(Categories)
    /\ validation_results["recommendations"].quality_score = <<5, 6>>
    /\ ~validation_results["recommendations"].passed
    /\ validation_results["image"].quality_score = <<4, 4>>
    /\ validation_results["image"].passed

PerPredicate(suggestions) == SelectSeq(suggestions, LAMBDA m : m # OverallMessage)
NumPassed(c) == validation_results[c].quality_score[1]

\* C16 as stated: the number of suggestions equals the number of failed
\* predicates.
C16_OneSuggestionPerFailedPredicate ==
    QaDone => Len(improvement_suggestions) = Cardinality(FailedPredicates)

\* C16 amended: the suggestions are one message per failed predicate, each
\* once, followed by one overall-quality message exactly when the mean of
\* the three category scores is below 0.8; the list is empty when every
\* predicate passed.
C16_PerPredicatePlusOverall ==
    QaDone =>
        LET per == PerPredicate(improvement_suggestions)
            n == Len(improvement_suggestions)
            below == 10 * (2 * NumPassed("recommendations") + 3 * NumPassed("image")
                           + 2 * NumPassed("styling")) < 8 * 36
        IN /\ Range(per) = FailedPredicates
           /\ Len(per) = Cardinality(FailedPredicates)
           /\ \A i \in 1..n : improvement_suggestions[i] = OverallMessage => i = n
           /\ (n > 0 /\ improvement_suggestions[n] = OverallMessage) <=> below
           /\ FailedPredicates = {} => improvement_suggestions = <<>>

\* eight failed predicates and the overall message on top
C16_Witness ==
    /\ QaDone
    /\ Cardinality(FailedPredicates) = 8
    /\ Len(improvement_suggestions) = 9
    /\ improvement_suggestions[9] = OverallMessage

\* ------------------------------------------------ Recommendation agent
RecIdle ==
    /\ rec_outcome = "idle"
    /\ candidate_destinations = <<>>
    /\ compatible_dests = <<>>
    /\ diverse_dests = <<>>
    /\ filter_calls = 0

\* generate_recommendations is about to be called
RecInit ==
    /\ rec_outcome = "ready"
    /\ candidate_destinations = <<>>
    /\ compatible_dests = <<>>
    /\ diverse_dests = <<>>
    /\ filter_calls = 0

Countries == {"FR", "IT", "JP"}
\* calculate_vibe_match results, in tenths
VibeScores == {6, 9}
PhotographyScoreOf(id) == IF id % 2 = 1 THEN 8 ELSE 1

\* a result of vector_search: n distinct destinations, each with its country,
\* its vibe match and the verdict the hard-exclude rules give it
CandidateList(n, cs, vs, ok) ==
    [i \in 1..n |-> [id |-> i, country |-> cs[i], vibe_score |-> vs[i],
                     photography_score |-> PhotographyScoreOf(i),
                     compatible |-> ok[i]]]

\* filter_by_vibe_compatibility: drops the candidates a hard-exclude rule hits
FilterByVibeCompatibility(candidates) ==
    SelectSeq(candidates, LAMBDA d : d.compatible)

\* final_score = (vibe_score * 0.7) + (photo_score * 0.3) with
\* photo_score = photography_score / 10, in hundredths
FinalScore(dest) == dest.vibe_score * 7 + dest.photography_score * 3

\* step 3: every compatible destination with its match_score, in the order
\* of compatible_dests
ScoredDests(compatible) ==
    [i \in DOMAIN compatible |->
        [id |-> compatible[i].id, country |-> compatible[i].country,
         match_score |-> FinalScore(compatible[i]), match_reason |-> TRUE]]

RemoveAt(seq, i) == SubSeq(seq, 1, i - 1) \o SubSeq(seq, i + 1, Len(seq))

\* descending by match_score, ties in their given order
RECURSIVE SortByScore(_)
SortByScore(scored) ==
    IF scored = <<>> THEN <<>>
    ELSE LET best == CHOOSE i \in DOMAIN scored :
                        /\ \A j \in DOMAIN scored : scored[j].match_score <= scored[i].match_score
                        /\ \A j \in 1..(i - 1) : scored[j].match_score < scored[i].match_score
         IN <<scored[best]>> \o SortByScore(RemoveAt(scored, best))

\* walk the sorted candidates, skipping a country that is already selected
RECURSIVE DiverseWalk(_, _, _)
DiverseWalk(sorted, selected, count) ==
    IF sorted = <<>> \/ Len(selected) = count THEN selected
    ELSE IF \E i \in DOMAIN selected : selected[i].country = Head(sorted).country
         THEN DiverseWalk(Tail(sorted), selected, count)
         ELSE DiverseWalk(Tail(sorted), Append(selected, Head(sorted)), count)

\* select_diverse_destinations(scored_dests, count): the diverse walk, and
\* when it ends short of count the diversity constraint is dropped
SelectDiverseDestinationsNoRelaxation(scored, count) ==
    DiverseWalk(SortByScore(scored), <<>>, count)
SelectDiverseDestinations(scored, count) ==
    LET sorted == SortByScore(scored)
        diverse == DiverseWalk(sorted, <<>>, count)
    IN IF Len(diverse) < count
       THEN SubSeq(sorted, 1, Min(count, Len(sorted)))
       ELSE diverse

\* generate_recommendations(vibe_profile)
GenerateRecommendations ==
    /\ rec_outcome = "ready"
    /\ \E n \in 0..MaxCandidates :
       \E cs \in [1..n -> Countries], vs \in [1..n -> VibeScores],
          ok \in [1..n -> BOOLEAN] :
          LET candidates == CandidateList(n, cs, vs, ok)
              compatible == FilterByVibeCompatibility(candidates)
          IN /\ candidate_destinations' = candidates
             /\ compatible_dests' = compatible
             /\ diverse_dests' = SelectDiverseDestinations(ScoredDests(compatible), 3)
    /\ filter_calls' = filter_calls + 1
    /\ rec_outcome' = "completed"
    /\ UNCHANGED <<wfVars, grVars, agVars, qaVars, veVars, iqVars, enVars, parVars, rtVars, heroVars, ccVars, cpVars>>

\* ------------------------------------------------ Recommendation claims
RecCompleted == rec_outcome = "completed"

DistinctCountries(seq) == {seq[i].country : i \in DOMAIN seq}

\* C17: a completed output has exactly 3 records, no two with the same
\* destination id, with match scores non-increasing in presentation order.
C17_ThreeDistinctNonIncreasing ==
    RecCompleted =>
        /\ Len(diverse_dests) = 3
        /\ \A i, j \in DOMAIN diverse_dests :
              i < j => /\ diverse_dests[i].id # diverse_dests[j].id
                       /\ diverse_dests[i].match_score >= diverse_dests[j].match_score

\* C18: the selection takes the candidates in descending score order and
\* skips a country that is already selected; with at least 3 candidates but
\* fewer than 3 countries it drops the constraint and still returns 3; the
\* count is below 3 only when the pool has fewer than 3 candidates.
C18_DiversityThenRelaxation ==
    RecCompleted =>
        LET pool == ScoredDests(compatible_dests)
            chosen == {diverse_dests[i].id : i \in DOMAIN diverse_dests}
            diverse == Cardinality(DistinctCountries(pool)) >= 3
        IN /\ Len(diverse_dests) = Min(3, Len(pool))
           /\ Range(diverse_dests) \subseteq Range(pool)
           /\ \A i, j \in DOMAIN diverse_dests :
                 i < j => diverse_dests[i].match_score >= diverse_dests[j].match_score
           /\ diverse =>
                 /\ Cardinality(DistinctCountries(diverse_dests)) = 3
                 \* a candidate passed over for a lower-scoring one was skipped
                 \* because its country was already selected with a score at
                 \* least as high
                 /\ \A p \in DOMAIN pool : \A i \in DOMAIN diverse_dests :
                       (pool[p].id \notin chosen
                           /\ pool[p].match_score > diverse_dests[i].match_score)
                       => \E k \in DOMAIN diverse_dests :
                             /\ diverse_dests[k].country = pool[p].country
                             /\ diverse_dests[k].match_score >= pool[p].match_score
           /\ ~diverse =>
                 \A p \in DOMAIN pool : \A i \in DOMAIN diverse_dests :
                     pool[p].id \notin chosen =>
                         pool[p].match_score <= diverse_dests[i].match_score

\* four compatible candidates from two countries: three are returned, two of
\* them from the same country
C18_Witness ==
    /\ RecCompleted
    /\ Len(compatible_dests) = 4
    /\ Cardinality(DistinctCountries(compatible_dests)) = 2
    /\ Len(diverse_dests) = 3
    /\ Cardinality(DistinctCountries(diverse_dests)) = 2

\* C19: with fewer than 3 compatible candidates the hard-exclude rules are
\* relaxed once (a second filtering) before the outcome is decided, and the
\* outcome is a fatal error unless 3 records are returned.
C19_RelaxOnceThenFatal ==
    /\ (RecCompleted /\ Len(compatible_dests) < 3) => filter_calls = 2
    /\ (RecCompleted /\ rec_outcome # "fatal_error") => Len(diverse_dests) >= 3

\* ------------------------------------------------ Vibe Extraction workflow
VibeIdle ==
    /\ ve_node = "idle"
    /\ ve_visited = <<>>
    /\ extracted_vibe = <<>>

\* the compiled vibe graph is invoked
VibeInit ==
    /\ ve_node = START
    /\ ve_visited = <<>>
    /\ extracted_vibe = <<>>

\* workflow.add_node(...)
VibeNodes == {"mood", "aesthetic", "duration", "interests", "finalize"}

\* workflow.set_entry_point / workflow.add_edge
VibeEdgesSkipInterests == {
    <<START, "mood">>,
    <<"mood", "aesthetic">>,
    <<"aesthetic", "duration">>,
    <<"duration", "finalize">>,
    <<"interests", "finalize">>,
    <<"finalize", END>>}
VibeEdges == {
    <<START, "mood">>,
    <<"mood", "aesthetic">>,
    <<"aesthetic", "duration">>,
    <<"duration", "interests">>,
    <<"interests", "finalize">>,
    <<"finalize", END>>}

VibeSuccessors(node) == {e[2] : e \in {f \in VibeEdges : f[1] = node}}

\* the values a step may extract (CONVERSATION_SYSTEM_PROMPT)
VibeValues(field) ==
    CASE field = "mood" -> {"romantic", "adventurous", "nostalgic", "peaceful"}
      [] field = "aesthetic" -> {"urban", "nature", "vintage", "modern"}
      [] field = "duration" -> {"short", "medium", "long"}
      [] field = "interests" -> {"photography", "food", "art"}
      [] OTHER -> {"confirmed"}

WithVibe(field, value) ==
    [f \in DOMAIN extracted_vibe \cup {field} |->
        IF f = field THEN value ELSE extracted_vibe[f]]

\* graph.invoke: the entry point is entered
VibeEnter ==
    /\ ve_node = START
    /\ ve_node' \in VibeSuccessors(START)
    /\ UNCHANGED <<ve_visited, extracted_vibe>>
    /\ UNCHANGED <<wfVars, grVars, agVars, qaVars, recVars, iqVars, enVars, parVars, rtVars, heroVars, ccVars, cpVars>>

\* extract_mood_node runs: it returns its extraction and the edge out of it is
\* followed, or it raises and the run is aborted
ExtractMoodNode ==
    /\ ve_node = "mood"
    /\ ve_visited' = Append(ve_visited, "mood")
    /\ \/ /\ \E value \in VibeValues("mood") :
                extracted_vibe' = WithVibe("mood", value)
          /\ ve_node' \in VibeSuccessors("mood")
       \/ /\ ve_node' = "raised"
          /\ UNCHANGED extracted_vibe
    /\ UNCHANGED <<wfVars, grVars, agVars, qaVars, recVars, iqVars, enVars, parVars, rtVars, heroVars, ccVars, cpVars>>

\* extract_aesthetic_node runs: it returns its extraction and the edge out of it is
\* followed, or it raises and the run is aborted
ExtractAestheticNode ==
    /\ ve_node = "aesthetic"
    /\ ve_visited' = Append(ve_visited, "aesthetic")
    /\ \/ /\ \E value \in VibeValues("aesthetic") :
                extracted_vibe' = WithVibe("aesthetic", value)
          /\ ve_node' \in VibeSuccessors("aesthetic")
       \/ /\ ve_node' = "raised"
          /\ UNCHANGED extracted_vibe
    /\ UNCHANGED <<wfVars, grVars, agVars, qaVars, recVars, iqVars, enVars, parVars, rtVars, heroVars, ccVars, cpVars>>

\* extract_duration_node runs: it returns its extraction and the edge out of it is
\* followed, or it raises and the run is aborted
ExtractDurationNode ==
    /\ ve_node = "duration"
    /\ ve_visited' = Append(ve_visited, "duration")
    /\ \/ /\ \E value \in VibeValues("duration") :
                extracted_vibe' = WithVibe("duration", value)
          /\ ve_node' \in VibeSuccessors("duration")
       \/ /\ ve_node' = "raised"
          /\ UNCHANGED extracted_vibe
    /\ UNCHANGED <<wfVars, grVars, agVars, qaVars, recVars, iqVars, enVars, parVars, rtVars, heroVars, ccVars, cpVars>>

\* extract_interests_node runs: it returns its extraction and the edge out of it is
\* followed, or it raises and the run is aborted
ExtractInterestsNode ==
    /\ ve_node = "interests"
    /\ ve_visited' = Append(ve_visited, "interests")
    /\ \/ /\ \E value \in VibeValues("interests") :
                extracted_vibe' = WithVibe("interests", value)
          /\ ve_node' \in VibeSuccessors("interests")
       \/ /\ ve_node' = "raised"
          /\ UNCHANGED extracted_vibe
    /\ UNCHANGED <<wfVars, grVars, agVars, qaVars, recVars, iqVars, enVars, parVars, rtVars, heroVars, ccVars, cpVars>>

\* finalize_vibe_node runs: it returns its extraction and the edge out of it is
\* followed, or it raises and the run is aborted
FinalizeVibeNode ==
    /\ ve_node = "finalize"
    /\ ve_visited' = Append(ve_visited, "finalize")
    /\ \/ /\ \E value \in VibeValues("finalize") :
                extracted_vibe' = WithVibe("finalize", value)
          /\ ve_node' \in VibeSuccessors("finalize")
       \/ /\ ve_node' = "raised"
          /\ UNCHANGED extracted_vibe
    /\ UNCHANGED <<wfVars, grVars, agVars, qaVars, recVars, iqVars, enVars, parVars, rtVars, heroVars, ccVars, cpVars>>

\* ------------------------------------------------ Vibe Extraction claims
VibeOrder == <<"mood", "aesthetic", "duration", "interests", "finalize">>

\* C21: the steps run in the order mood, aesthetic, duration, interests,
\* finalize: what has run is always a prefix of that order (nothing skipped,
\* nothing twice), and the workflow has ended only when all five have run.
C21_FixedStepOrder ==
    /\ Len(ve_visited) <= Len(VibeOrder)
    /\ ve_visited = SubSeq(VibeOrder, 1, Len(ve_visited))
    /\ ve_node = END => ve_visited = VibeOrder
    /\ ve_node \in VibeNodes => ve_node = VibeOrder[Len(ve_visited) + 1]

\* a run that went through all five steps and ended
C21_Witness ==
    /\ ve_node = END
    /\ ve_visited = VibeOrder
    /\ DOMAIN extracted_vibe = VibeNodes

\* ------------------------------------------------ validate_image_quality
ImageQualityIdle ==
    /\ iq_pc = "idle"
    /\ image_url = "None"
    /\ download = "ok"
    /\ image_size = <<0, 0>>
    /\ is_valid = FALSE

\* the asset the function is called on: every reference, download outcome
\* and size
ImageQualityInit ==
    /\ iq_pc = "ready"
    /\ image_url \in {"None", "", "http://img", "https://img"}
    /\ download \in {"ok", "ConnectionError", "UnidentifiedImageError"}
    /\ image_size \in {512, 1023, 1024, 2048} \X {512, 1023, 1024, 2048}
    /\ is_valid = FALSE

\* validate_image_quality(image_url): the returned bool; every exception of
\* the download is caught and gives False
ValidateImageQualityWidthOnly(url, dl, size) ==
    IF ~Truthy(url) \/ ~StartsWithHttps(url) THEN FALSE
    ELSE IF dl # "ok" THEN FALSE
    ELSE IF size[1] < 1024 THEN FALSE
    ELSE TRUE
ValidateImageQuality(url, dl, size) ==
    IF ~Truthy(url) \/ ~StartsWithHttps(url) THEN FALSE
    ELSE IF dl # "ok" THEN FALSE
    ELSE IF size[1] < 1024 \/ size[2] < 1024 THEN FALSE
    ELSE TRUE

CallValidateImageQuality ==
    /\ iq_pc = "ready"
    /\ is_valid' = ValidateImageQuality(image_url, download, image_size)
    /\ iq_pc' = "returned"
    /\ UNCHANGED <<image_url, download, image_size>>
    /\ UNCHANGED <<wfVars, grVars, agVars, qaVars, recVars, veVars, enVars, parVars, rtVars, heroVars, ccVars, cpVars>>

\* C22: validation returns true exactly when the reference is an https
\* reference, the asset could be fetched and decoded, and its shorter edge
\* is at least 1024; in every other case it returns false and does not raise.
C22_AcceptsIffHttpsAndLargeEnough ==
    iq_pc \in {"ready", "returned"}
    /\ (iq_pc = "returned" =>
          (is_valid <=> /\ image_url = "https://img"
                        /\ download = "ok"
                        /\ Min(image_size[1], image_size[2]) >= 1024))

\* a fetched https asset of 2048 x 1023 is rejected
C22_Witness ==
    /\ iq_pc = "returned"
    /\ image_url = "https://img"
    /\ download = "ok"
    /\ image_size = <<2048, 1023>>
    /\ ~is_valid

\* ------------------------------------------------ Content Enrichment
\* a prop dict of PROPS_DATABASE: the keys the enrichment adds are absent
Prop(name) == [name |-> name, where_to_find |-> "absent", styling_tips |-> "absent"]

\* PROPS_DATABASE as the module defines it
InitialPropsDatabase ==
    [c \in {"flaneur", "filmlog", "midnight"} |->
        CASE c = "flaneur" ->
                <<Prop("Vintage book"), Prop("City map"), Prop("Coffee in thermos")>>
          [] c = "filmlog" ->
                <<Prop("Vintage Polaroid camera"), Prop("Film photography book"),
                  Prop("Woven basket")>>
          [] OTHER ->
                <<Prop("Vintage pocket watch"), Prop("Leather-bound journal"),
                  Prop("Antique monocular")>>]

EnrichIdle ==
    /\ props_database = InitialPropsDatabase
    /\ enrich_calls = <<>>

\* the module has been imported, no call made yet
EnrichInit ==
    /\ props_database = InitialPropsDatabase
    /\ enrich_calls = <<>>

Sessions == {"A", "B"}
Concepts == {"flaneur", "filmlog", "unknown"}
LocationTypes == {"coastal", "urban", "rural"}
PropCounts == {3, 4}
\* generate_sourcing_info / generate_styling_tips / generate_technique_description
Elaborations == {"ok", "fails"}

\* PROPS_DATABASE.get(concept, PROPS_DATABASE["filmlog"]): the key whose list
\* base_props is
BasePropsKey(db, concept) == IF concept \in DOMAIN db THEN concept ELSE "filmlog"

\* "Location-specific adjustments": what base_props.append adds
LocationProps(location_type) ==
    IF location_type = "coastal" THEN <<Prop("Seashell collection jar")>>
    ELSE IF location_type = "urban" THEN <<Prop("Vintage metro ticket")>>
    ELSE <<>>

\* prop["where_to_find"] = ...; prop["styling_tips"] = ...(prop["name"], concept)
Enriched(prop, concept) ==
    [prop EXCEPT !.where_to_find = "sourcing info", !.styling_tips = concept]

\* recommend_props(concept, location_type, count) on database db: the
\* database afterwards, and the returned list or the exception of a failed
\* elaboration call
RecommendProps(db, concept, location_type, count, elaboration) ==
    LET key == BasePropsKey(db, concept)
        base_props == db[key] \o LocationProps(location_type)
        n == Min(count, Len(base_props))
        after == [i \in 1..Len(base_props) |->
                     IF i <= n THEN Enriched(base_props[i], concept)
                     ELSE base_props[i]]
    IN IF elaboration = "ok"
       THEN [db |-> [db EXCEPT ![key] = after], outcome |-> "returned",
             items |-> SubSeq(after, 1, n)]
       ELSE [db |-> [db EXCEPT ![key] = base_props], outcome |-> "raised",
             items |-> <<>>]

\* names of base_angles, and of an angle adjust_for_concept may add
BaseAngles == <<"Rule of thirds", "Leading lines", "Bokeh background", "Silhouette",
                "Frame within frame">>
ConceptAngle == "Concept angle"

\* lengths of concept_angles, the list filter_angles_by_time and
\* adjust_for_concept leave
ConceptAngleCounts == 3..6

ConceptAngles(n) ==
    IF n <= Len(BaseAngles) THEN SubSeq(BaseAngles, 1, n)
    ELSE Append(BaseAngles, ConceptAngle)

\* generate_photography_angles(location, concept, time_of_day): the returned
\* list concept_angles[:5], or the exception of a failed elaboration call
GeneratePhotographyAnglesNoCut(n, elaboration) ==
    IF elaboration = "ok"
    THEN [outcome |-> "returned", items |-> ConceptAngles(n)]
    ELSE [outcome |-> "raised", items |-> <<>>]
GeneratePhotographyAngles(n, elaboration) ==
    IF elaboration = "ok"
    THEN [outcome |-> "returned",
          items |-> SubSeq(ConceptAngles(n), 1, Min(5, Len(ConceptAngles(n))))]
    ELSE [outcome |-> "raised", items |-> <<>>]

EnrichCall(fn, session, concept, location_type, count, elaboration, res) ==
    [fn |-> fn, session |-> session, concept |-> concept,
     location_type |-> location_type, count |-> count,
     elaboration |-> elaboration, outcome |-> res.outcome, items |-> res.items]

\* a session's enrichment calls recommend_props
CallRecommendProps ==
    /\ Len(enrich_calls) < MaxEnrichCalls
    /\ \E session \in Sessions, concept \in Concepts, location_type \in LocationTypes,
          count \in PropCounts, elaboration \in Elaborations :
          LET res == RecommendProps(props_database, concept, location_type, count,
                                    elaboration)
          IN /\ props_database' = res.db
             /\ enrich_calls' = Append(enrich_calls,
                    EnrichCall("recommend_props", session, concept, location_type,
                               count, elaboration, res))
    /\ UNCHANGED <<wfVars, grVars, agVars, qaVars, recVars, veVars, iqVars, parVars, rtVars, heroVars, ccVars, cpVars>>

\* a session's enrichment calls generate_photography_angles
CallGeneratePhotographyAngles ==
    /\ Len(enrich_calls) < MaxEnrichCalls
    /\ \E session \in Sessions, concept \in Concepts, n \in ConceptAngleCounts,
          elaboration \in Elaborations :
          enrich_calls' = Append(enrich_calls,
              EnrichCall("generate_photography_angles", session, concept, "-", n,
                         elaboration, GeneratePhotographyAngles(n, elaboration)))
    /\ UNCHANGED props_database
    /\ UNCHANGED <<wfVars, grVars, agVars, qaVars, recVars, veVars, iqVars, parVars, rtVars, heroVars, ccVars, cpVars>>

\* ------------------------------------------------ Content Enrichment claims
PropsCalls == {i \in DOMAIN enrich_calls : enrich_calls[i].fn = "recommend_props"}
AnglesCalls ==
    {i \in DOMAIN enrich_calls : enrich_calls[i].fn = "generate_photography_angles"}
Returned(i) == enrich_calls[i].outcome = "returned"

\* C23: a failing elaboration call never makes an enrichment function fail:
\* it still returns its list of lookup values and raises nothing.
C23_ElaborationFailureFallsBack ==
    \A i \in DOMAIN enrich_calls :
        enrich_calls[i].elaboration = "fails" =>
            /\ Returned(i)
            /\ enrich_calls[i].items # <<>>

\* a styling package with the given numbers of props and angles, complete in
\* everything else
PackageWith(n_props, n_angles) ==
    [cameraModel |-> "Canon AE-1", filmStock |-> "named",
     cameraSettings |-> {"aperture", "shutterSpeed", "iso"}, colorPalette |-> 4,
     props |-> n_props, bestAngles |-> n_angles]

SameArguments(i, j) ==
    /\ enrich_calls[i].concept = enrich_calls[j].concept
    /\ enrich_calls[i].location_type = enrich_calls[j].location_type
    /\ enrich_calls[i].count = enrich_calls[j].count

\* C25: recommend_props leaves PROPS_DATABASE as it was, and two calls with
\* the same (concept, location_type, count) return the same props.
C25_RecommendPropsIsPure ==
    /\ props_database = InitialPropsDatabase
    /\ \A i, j \in PropsCalls :
          (i < j /\ SameArguments(i, j) /\ Returned(i) /\ Returned(j)) =>
              enrich_calls[i].items = enrich_calls[j].items

\* PROPS_DATABASE after the recommend_props calls among the first k calls
\* that session made, all other calls left out
RECURSIVE DatabaseOfSessionAlone(_, _)
DatabaseOfSessionAlone(session, k) ==
    IF k = 0 THEN InitialPropsDatabase
    ELSE LET c == enrich_calls[k]
             before == DatabaseOfSessionAlone(session, k - 1)
         IN IF c.fn = "recommend_props" /\ c.session = session
            THEN RecommendProps(before, c.concept, c.location_type, c.count,
                                c.elaboration).db
            ELSE before

\* C26: what recommend_props returns to a session is what it returns when
\* only that session's calls are made, whatever the other session called
\* before.
C26_SessionsShareNoState ==
    \A k \in PropsCalls :
        LET c == enrich_calls[k]
            alone == RecommendProps(DatabaseOfSessionAlone(c.session, k - 1),
                                    c.concept, c.location_type, c.count, c.elaboration)
        IN c.outcome = alone.outcome /\ c.items = alone.items

\* ------------------------------------------------ parallel_agent_execution
ParallelIdle ==
    /\ par_pc = "idle"
    /\ agents = 0
    /\ tasks = <<>>
    /\ successful_results = <<>>

\* parallel_agent_execution(agents, state) is called
ParallelInit ==
    /\ par_pc = "called"
    /\ agents \in 1..MaxAgents
    /\ tasks = <<>>
    /\ successful_results = <<>>

\* tasks = [asyncio.create_task(agent(state)) for agent in agents]
CreateTasks ==
    /\ par_pc = "called"
    /\ tasks' = [i \in 1..agents |-> "running"]
    /\ par_pc' = "gathering"
    /\ UNCHANGED <<agents, successful_results>>
    /\ UNCHANGED <<wfVars, grVars, agVars, qaVars, recVars, veVars, iqVars, enVars, rtVars, heroVars, ccVars, cpVars>>

\* one of the running agents returns its result
TaskCompletes ==
    /\ par_pc = "gathering"
    /\ \E i \in DOMAIN tasks :
          /\ tasks[i] = "running"
          /\ tasks' = [tasks EXCEPT ![i] = "done"]
    /\ UNCHANGED <<par_pc, agents, successful_results>>
    /\ UNCHANGED <<wfVars, grVars, agVars, qaVars, recVars, veVars, iqVars, enVars, rtVars, heroVars, ccVars, cpVars>>

\* one of the running agents raises
TaskFails ==
    /\ par_pc = "gathering"
    /\ \E i \in DOMAIN tasks :
          /\ tasks[i] = "running"
          /\ tasks' = [tasks EXCEPT ![i] = "failed"]
    /\ UNCHANGED <<par_pc, agents, successful_results>>
    /\ UNCHANGED <<wfVars, grVars, agVars, qaVars, recVars, veVars, iqVars, enVars, rtVars, heroVars, ccVars, cpVars>>

\* the results that are not exceptions, in the order of the agents
SuccessfulResults(ts) ==
    SelectSeq([i \in DOMAIN ts |-> i], LAMBDA i : ts[i] # "failed")

\* asyncio.gather(*tasks, return_exceptions=True) returns once every task has
\* finished; the loop keeps the results that are not exceptions
GatherReturns ==
    /\ par_pc = "gathering"
    /\ \A i \in DOMAIN tasks : tasks[i] # "running"
    /\ successful_results' = SuccessfulResults(tasks)
    /\ par_pc' = "returned"
    /\ UNCHANGED <<agents, tasks>>
    /\ UNCHANGED <<wfVars, grVars, agVars, qaVars, recVars, veVars, iqVars, enVars, rtVars, heroVars, ccVars, cpVars>>

\* C27: the function returns only after every task has completed or failed,
\* and when any task failed it passes on none of the results of the others.
C27_NoPartialResults ==
    par_pc = "returned" =>
        /\ \A i \in DOMAIN tasks : tasks[i] \in {"done", "failed"}
        /\ (\E i \in DOMAIN tasks : tasks[i] = "failed") => successful_results = <<>>

\* ------------------------------------------------ route_to_agent
RouteIdle ==
    /\ rt_pc = "idle"
    /\ current_step = "init"
    /\ routed_agent = "none"
    /\ route_calls = 0

\* values state["current_step"] can hold: the Literal of OrchestratorState,
\* the graph's node name for enrichment, and strings outside both
StepValues == Steps \cup {"content_enrichment", "failed", ""}

RouteInit ==
    /\ rt_pc = "state"
    /\ current_step \in StepValues
    /\ routed_agent = "none"
    /\ route_calls = 0

\* the keys of routing_map
MappedSteps == {p[1] : p \in routing_map}

\* route_to_agent(state) is called
CallRouteToAgent ==
    /\ rt_pc = "state"
    /\ route_calls < MaxRouteCalls
    /\ routed_agent' \in RouteToAgent(current_step)
    /\ route_calls' = route_calls + 1
    /\ rt_pc' = "routed"
    /\ UNCHANGED current_step
    /\ UNCHANGED <<wfVars, grVars, agVars, qaVars, recVars, veVars, iqVars, enVars, parVars, heroVars, ccVars, cpVars>>

\* the routed agent runs and leaves some current_step in the state
AgentWritesStep ==
    /\ rt_pc = "routed"
    /\ current_step' \in StepValues
    /\ rt_pc' = "state"
    /\ UNCHANGED <<routed_agent, route_calls>>
    /\ UNCHANGED <<wfVars, grVars, agVars, qaVars, recVars, veVars, iqVars, enVars, parVars, heroVars, ccVars, cpVars>>

\* C30: a current_step that is not a key of the routing table (and is not
\* the final step) is not routed: route_to_agent reports a fault instead of
\* returning an agent or complete.
C30_RoutingMissIsFatal ==
    (rt_pc = "routed" /\ current_step \notin MappedSteps \cup {"complete"})
        => routed_agent \notin RouteTargets

\* ------------------------------------------------ Hero background slider
\* slides.length
SlidesLength == 4

\* the period of setInterval(..., 5000), in seconds
TimerSeconds == 5

HeroIdle ==
    /\ hero_pc = "idle"
    /\ mounted = FALSE
    /\ currentIndex = 0
    /\ interval = "none"
    /\ elapsed = 0
    /\ ticks = 0

\* the first render of Hero: useState(false), useState(0), effects pending
HeroInit ==
    /\ hero_pc = "rendered"
    /\ mounted = FALSE
    /\ currentIndex = 0
    /\ interval = "none"
    /\ elapsed = 0
    /\ ticks = 0

\* (prev) => (prev + 1) % slides.length
NextIndexNoWrap(prev) == prev + 1
NextIndex(prev) == (prev + 1) % SlidesLength

\* the effects of the first render: setMounted(true); the second effect
\* returns at `if (!mounted) return`
HeroFirstEffects ==
    /\ hero_pc = "rendered"
    /\ mounted' = TRUE
    /\ hero_pc' = "rerendered"
    /\ UNCHANGED <<currentIndex, interval, elapsed, ticks>>
    /\ UNCHANGED <<wfVars, grVars, agVars, qaVars, recVars, veVars, iqVars, enVars, parVars, rtVars, ccVars, cpVars>>

\* the second effect runs again because mounted changed: setInterval
HeroStartInterval ==
    /\ hero_pc = "rerendered"
    /\ mounted
    /\ interval' = "active"
    /\ elapsed' = 0
    /\ hero_pc' = "running"
    /\ UNCHANGED <<mounted, currentIndex, ticks>>
    /\ UNCHANGED <<wfVars, grVars, agVars, qaVars, recVars, veVars, iqVars, enVars, parVars, rtVars, ccVars, cpVars>>

\* a second passes
HeroClock ==
    /\ hero_pc \in {"running", "unmounted"}
    /\ elapsed < TimerSeconds
    /\ elapsed' = elapsed + 1
    /\ UNCHANGED <<hero_pc, mounted, currentIndex, interval, ticks>>
    /\ UNCHANGED <<wfVars, grVars, agVars, qaVars, recVars, veVars, iqVars, enVars, parVars, rtVars, ccVars, cpVars>>

\* the interval's callback: setCurrentIndex((prev) => (prev + 1) % slides.length)
HeroTick ==
    /\ interval = "active"
    /\ elapsed = TimerSeconds
    /\ ticks < MaxTicks
    /\ currentIndex' = NextIndex(currentIndex)
    /\ elapsed' = 0
    /\ ticks' = ticks + 1
    /\ UNCHANGED <<hero_pc, mounted, interval>>
    /\ UNCHANGED <<wfVars, grVars, agVars, qaVars, recVars, veVars, iqVars, enVars, parVars, rtVars, ccVars, cpVars>>

\* the component unmounts: the effect's cleanup runs clearInterval(interval)
HeroUnmount ==
    /\ hero_pc \in {"rendered", "rerendered", "running"}
    /\ hero_pc' = "unmounted"
    /\ interval' = IF interval = "active" THEN "cleared" ELSE interval
    /\ UNCHANGED <<mounted, currentIndex, elapsed, ticks>>
    /\ UNCHANGED <<wfVars, grVars, agVars, qaVars, recVars, veVars, iqVars, enVars, parVars, rtVars, ccVars, cpVars>>

\* ------------------------------------------------ Hero claims
\* C39: currentIndex stays within 0..slides.length-1 and is 0 until the
\* component has mounted; every timer tick advances it by exactly one with
\* wrap-around, nothing else changes it, and after unmount it never changes.
C39_SliderIndex ==
    /\ [](/\ currentIndex \in 0..(SlidesLength - 1)
          /\ (~mounted => currentIndex = 0)
          /\ currentIndex = ticks % SlidesLength)
    /\ [][/\ (ticks' # ticks) =>
               (ticks' = ticks + 1 /\ currentIndex' = (currentIndex + 1) % SlidesLength)
          /\ (ticks' = ticks) => (currentIndex' = currentIndex)
          /\ (hero_pc = "unmounted") => (currentIndex' = currentIndex)]_vars

\* the slider has wrapped around to the second slide and was then unmounted
\* with time passing after it
C39_Witness ==
    /\ hero_pc = "unmounted"
    /\ interval = "cleared"
    /\ elapsed = TimerSeconds
    /\ ticks = SlidesLength + 1
    /\ currentIndex = 1

\* ------------------------------------------------ concurrent generate() calls
\* two calls of generate() that overlap in time
Runs == {"run1", "run2"}

\* thread_id: str = "default", or a caller's own id
ThreadIds == {"default", "user_123_session_1"}

\* workflow.add_node of _build_graph
AgentNodes == {"extract_keywords", "optimize_prompt", "generate_image"}

ConcurrentIdle ==
    /\ thread_id = [r \in Runs |-> "default"]
    /\ run_at = [r \in Runs |-> "idle"]
    /\ run_phase = [r \in Runs |-> "waiting"]
    /\ executions = [t \in ThreadIds |-> [n \in AgentNodes |-> 0]]
    /\ checkpoint_writes = [t \in ThreadIds |-> [n \in AgentNodes |-> 0]]

\* generate(user_prompt, thread_id) is called twice; nothing is held per
\* thread_id before graph.ainvoke
ConcurrentInit ==
    /\ thread_id \in [Runs -> ThreadIds]
    /\ run_at = [r \in Runs |-> START]
    /\ run_phase = [r \in Runs |-> "waiting"]
    /\ executions = [t \in ThreadIds |-> [n \in AgentNodes |-> 0]]
    /\ checkpoint_writes = [t \in ThreadIds |-> [n \in AgentNodes |-> 0]]

\* graph.ainvoke(initial_state, config): the run starts at the entry point
GenerateStarts ==
    \E r \in Runs :
        /\ run_at[r] = START
        /\ run_at' = [run_at EXCEPT ![r] = AgentSuccessor(START, "pending")]
        /\ UNCHANGED <<thread_id, run_phase, executions, checkpoint_writes>>
        /\ UNCHANGED <<wfVars, grVars, agVars, qaVars, recVars, veVars, iqVars, enVars, parVars, rtVars, heroVars, cpVars>>

\* the node's function of a run begins to execute (it awaits its MCP tool)
RunNodeStarts ==
    \E r \in Runs :
        /\ run_at[r] \in AgentNodes
        /\ run_phase[r] = "waiting"
        /\ run_phase' = [run_phase EXCEPT ![r] = "running"]
        /\ executions' = [executions EXCEPT ![thread_id[r]][run_at[r]] = @ + 1]
        /\ UNCHANGED <<thread_id, run_at, checkpoint_writes>>
        /\ UNCHANGED <<wfVars, grVars, agVars, qaVars, recVars, veVars, iqVars, enVars, parVars, rtVars, heroVars, cpVars>>

\* the node returns: the compiled graph's checkpointer saves the state under
\* the run's thread_id and the edge is followed
RunNodeCompletes ==
    \E r \in Runs :
        /\ run_at[r] \in AgentNodes
        /\ run_phase[r] = "running"
        /\ checkpoint_writes' =
               [checkpoint_writes EXCEPT ![thread_id[r]][run_at[r]] = @ + 1]
        /\ run_at' = [run_at EXCEPT ![r] = AgentSuccessor(run_at[r], "pending")]
        /\ run_phase' = [run_phase EXCEPT ![r] = "waiting"]
        /\ UNCHANGED <<thread_id, executions>>
        /\ UNCHANGED <<wfVars, grVars, agVars, qaVars, recVars, veVars, iqVars, enVars, parVars, rtVars, heroVars, cpVars>>

\* graph.ainvoke returns and generate() returns its dict
GenerateReturns ==
    \E r \in Runs :
        /\ run_at[r] = END
        /\ run_at' = [run_at EXCEPT ![r] = "returned"]
        /\ UNCHANGED <<thread_id, run_phase, executions, checkpoint_writes>>
        /\ UNCHANGED <<wfVars, grVars, agVars, qaVars, recVars, veVars, iqVars, enVars, parVars, rtVars, heroVars, cpVars>>

\* ------------------------------------------------ claims on concurrent calls
\* C33: one session is processed by one run only: under one thread_id no
\* node is executed twice and no stage transition is checkpointed twice,
\* also when two runs use the same thread_id.
C33_OneActiveRunPerSession ==
    \A t \in ThreadIds, n \in AgentNodes :
        /\ executions[t][n] <= 1
        /\ checkpoint_writes[t][n] <= 1

\* ------------------------------------------------ Supervisor: advance, checkpoint, resume
SessionIds == {"user_123_session_1", "user_456_session_1"}

\* the steps an agent stands for, in the order of the routing table
StageSequence == <<"conversation", "recommendation", "image_generation",
                   "enrichment", "qa">>
StageSteps == {StageSequence[i] : i \in 1..Len(StageSequence)}
StageIndex(step) == CHOOSE i \in 1..Len(StageSequence) : StageSequence[i] = step

\* the current_step an agent of the routing table leaves when it has run
StepOfAgent(agent) ==
    CASE agent = "conversation_agent" -> "conversation"
      [] agent = "recommendation_agent" -> "recommendation"
      [] agent = "image_generation_agent" -> "image_generation"
      [] agent = "content_enrichment_agent" -> "enrichment"
      [] agent = "qa_agent" -> "qa"
      [] OTHER -> "complete"

\* the next state route_to_agent gives for a current_step
NextStep(step) == StepOfAgent(CHOOSE a \in RouteToAgent(step) : TRUE)

\* OrchestratorState of a new session: current_step and agent_results, where
\* a stage's result is "none", "partial" (half written) or "full"
InitialState ==
    [current_step |-> "init", agent_results |-> [st \in StageSteps |-> "none"]]

\* state_blob: the state serialised field by field
Encode(state) ==
    <<state.current_step>> \o
        [i \in 1..Len(StageSequence) |-> state.agent_results[StageSequence[i]]]
Decode(blob) ==
    [current_step |-> blob[1],
     agent_results |-> [st \in StageSteps |-> blob[1 + StageIndex(st)]]]

NotFound == [found |-> FALSE, blob |-> <<>>]

\* save_checkpoint(session_id, state_blob)
SaveCheckpoint(st, id, state) ==
    [st EXCEPT ![id] = [found |-> TRUE, blob |-> Encode(state)]]

\* load_checkpoint(session_id) -> state_blob | NotFound
LoadCheckpointAnyId(st, id) ==
    LET some == CHOOSE i \in SessionIds : st[i].found \/ \A j \in SessionIds : ~st[j].found
    IN IF st[some].found THEN [found |-> TRUE, state |-> Decode(st[some].blob)]
       ELSE [found |-> FALSE, state |-> InitialState]
LoadCheckpoint(st, id) ==
    IF st[id].found THEN [found |-> TRUE, state |-> Decode(st[id].blob)]
    ELSE [found |-> FALSE, state |-> InitialState]

\* advance(session, input): the stage output is stored and the next state is
\* taken from the routing table
Advance(state, stage) ==
    [current_step |-> NextStep(state.current_step),
     agent_results |-> [state.agent_results EXCEPT ![stage] = "full"]]

\* resume: the state the instance continues with, given what load_checkpoint
\* returned and what the memory of the instance holds
RehydrateKeepsStale(loaded, stale) == stale
Rehydrate(loaded, stale) == IF loaded.found THEN loaded.state ELSE InitialState

CheckpointIdle ==
    /\ cp_pc = "idle"
    /\ session_id = "user_123_session_1"
    /\ cp_state = InitialState
    /\ running_stage = "none"
    /\ store = [i \in SessionIds |-> NotFound]
    /\ last_output = "none"
    /\ saved_ids = {}
    /\ interrupted_stage = "none"
    /\ resumes = 0
    /\ reapplied = 0

\* states another session may have checkpointed before
OtherSessionStates ==
    {Advance(InitialState, "conversation"),
     Advance(Advance(InitialState, "conversation"), "recommendation")}

\* a new session starts; the other session has a checkpoint or has none
CheckpointInit ==
    /\ cp_pc = "between"
    /\ session_id \in SessionIds
    /\ cp_state = InitialState
    /\ running_stage = "none"
    /\ \E other \in {NotFound} \cup {[found |-> TRUE, blob |-> Encode(o)] : o \in OtherSessionStates} :
         store = [i \in SessionIds |-> IF i = session_id THEN NotFound ELSE other]
    /\ last_output = "none"
    /\ saved_ids = {i \in SessionIds : store[i].found}
    /\ interrupted_stage = "none"
    /\ resumes = 0
    /\ reapplied = 0

\* the stage the routing table names is invoked
StageStarts ==
    /\ cp_pc = "between"
    /\ NextStep(cp_state.current_step) \in StageSteps
    /\ running_stage' = NextStep(cp_state.current_step)
    /\ cp_pc' = "in_stage"
    /\ interrupted_stage' = "none"
    /\ UNCHANGED <<session_id, cp_state, store, last_output, saved_ids, resumes, reapplied>>
    /\ UNCHANGED <<wfVars, grVars, agVars, qaVars, recVars, veVars, iqVars, enVars, parVars, rtVars, heroVars, ccVars>>

\* the running stage has written a part of its output
StageProgress ==
    /\ cp_pc = "in_stage"
    /\ cp_state.agent_results[running_stage] = "none"
    /\ cp_state' = [cp_state EXCEPT !.agent_results[running_stage] = "partial"]
    /\ UNCHANGED <<cp_pc, session_id, running_stage, store, last_output, saved_ids,
                   interrupted_stage, resumes, reapplied>>
    /\ UNCHANGED <<wfVars, grVars, agVars, qaVars, recVars, veVars, iqVars, enVars, parVars, rtVars, heroVars, ccVars>>

\* the stage reports its output: advance computes the new state and persists
\* a checkpoint
StageCompletes ==
    /\ cp_pc = "in_stage"
    /\ cp_state.agent_results[running_stage] = "partial"
    /\ cp_state' = Advance(cp_state, running_stage)
    /\ store' = SaveCheckpoint(store, session_id, cp_state')
    /\ saved_ids' = saved_ids \cup {session_id}
    /\ last_output' = running_stage
    /\ running_stage' = "none"
    /\ cp_pc' = "between"
    /\ UNCHANGED <<session_id, interrupted_stage, resumes, reapplied>>
    /\ UNCHANGED <<wfVars, grVars, agVars, qaVars, recVars, veVars, iqVars, enVars, parVars, rtVars, heroVars, ccVars>>

\* the routing table gives complete: the session ends
SupervisorCompletes ==
    /\ cp_pc = "between"
    /\ cp_state.current_step # "complete"
    /\ NextStep(cp_state.current_step) = "complete"
    /\ cp_state' = [cp_state EXCEPT !.current_step = "complete"]
    /\ store' = SaveCheckpoint(store, session_id, cp_state')
    /\ saved_ids' = saved_ids \cup {session_id}
    /\ cp_pc' = "done"
    /\ UNCHANGED <<session_id, running_stage, last_output, interrupted_stage, resumes, reapplied>>
    /\ UNCHANGED <<wfVars, grVars, agVars, qaVars, recVars, veVars, iqVars, enVars, parVars, rtVars, heroVars, ccVars>>

\* advance is called again with the stage output it has already applied
ReapplyAdvance ==
    /\ cp_pc = "between"
    /\ last_output # "none"
    /\ reapplied < MaxReapply
    /\ cp_state' = Advance(cp_state, last_output)
    /\ store' = SaveCheckpoint(store, session_id, cp_state')
    /\ reapplied' = reapplied + 1
    /\ UNCHANGED <<cp_pc, session_id, running_stage, last_output, saved_ids,
                   interrupted_stage, resumes>>
    /\ UNCHANGED <<wfVars, grVars, agVars, qaVars, recVars, veVars, iqVars, enVars, parVars, rtVars, heroVars, ccVars>>

\* the orchestrator instance is interrupted, between stages or within one;
\* what it held in memory is no longer used
Interrupt ==
    /\ cp_pc \in {"between", "in_stage"}
    /\ resumes < MaxResumes
    /\ interrupted_stage' = running_stage
    /\ running_stage' = "none"
    /\ last_output' = "none"
    /\ cp_pc' = "interrupted"
    /\ UNCHANGED <<session_id, cp_state, store, saved_ids, resumes, reapplied>>
    /\ UNCHANGED <<wfVars, grVars, agVars, qaVars, recVars, veVars, iqVars, enVars, parVars, rtVars, heroVars, ccVars>>

\* resume(session_id): the shared state is re-hydrated from the checkpoint
Resume ==
    /\ cp_pc = "interrupted"
    /\ cp_state' = Rehydrate(LoadCheckpoint(store, session_id), cp_state)
    /\ cp_pc' = "between"
    /\ resumes' = resumes + 1
    /\ UNCHANGED <<session_id, running_stage, store, last_output, saved_ids,
                   interrupted_stage, reapplied>>
    /\ UNCHANGED <<wfVars, grVars, agVars, qaVars, recVars, veVars, iqVars, enVars, parVars, rtVars, heroVars, ccVars>>

C34_CheckpointOnlyAfterCompleteStage ==
    /\ [](/\ \A id \in SessionIds :
               store[id].found =>
                   \A st \in StageSteps : Decode(store[id].blob).agent_results[st] # "partial"
          /\ (cp_pc = "in_stage") =>
               \A st \in StageSteps \ {running_stage} : cp_state.agent_results[st] # "partial")
    /\ [][(cp_pc # "in_stage" /\ cp_pc' = "in_stage") =>
             /\ cp_state'.agent_results[running_stage'] = "none"
             /\ (interrupted_stage # "none") => (running_stage' = interrupted_stage)]_vars

\* a stage interrupted with half of its output written has been started again
\* after the resume
C34_Witness ==
    /\ cp_pc = "in_stage"
    /\ resumes = 1
    /\ running_stage = "recommendation"
    /\ cp_state.agent_results["conversation"] = "full"
    /\ cp_state.agent_results["recommendation"] = "partial"

\* ------------------------------------------------ specifications
\* the multi-agent workflow
Init == WorkflowInit /\ RetryIdle /\ AgentIdle /\ QaIdle /\ RecIdle /\ VibeIdle /\ ImageQualityIdle /\ EnrichIdle /\ ParallelIdle /\ RouteIdle /\ HeroIdle /\ ConcurrentIdle /\ CheckpointIdle
Next ==
    \/ EnterWorkflow
    \/ ConversationNode
    \/ RecommendationNode
    \/ ImageGenerationNode
    \/ ContentEnrichmentNode
    \/ QaNode
Spec == Init /\ [][Next]_vars
\* the compiled graph keeps running nodes until it reaches END
FairSpec == Spec /\ WF_vars(Next)

\* generate_with_retry
RetryNext ==
    \/ AttemptSucceeds
    \/ AttemptContentPolicy
    \/ AttemptBadRequest
    \/ AttemptRateLimit
    \/ AttemptOtherError
    \/ LoopExhausted
InitRetry == WorkflowIdle /\ RetryInit /\ AgentIdle /\ QaIdle /\ RecIdle /\ VibeIdle /\ ImageQualityIdle /\ EnrichIdle /\ ParallelIdle /\ RouteIdle /\ HeroIdle /\ ConcurrentIdle /\ CheckpointIdle
SpecRetry == InitRetry /\ [][RetryNext]_vars

\* ImageGenerationAgent.generate
AgentNext ==
    \/ AgentEnter
    \/ ExtractKeywordsNode
    \/ OptimizePromptNode
    \/ GenerateImageNode
    \/ AgentReturn
InitAgent == WorkflowIdle /\ RetryIdle /\ AgentInit /\ QaIdle /\ RecIdle /\ VibeIdle /\ ImageQualityIdle /\ EnrichIdle /\ ParallelIdle /\ RouteIdle /\ HeroIdle /\ ConcurrentIdle /\ CheckpointIdle
SpecAgent == InitAgent /\ [][AgentNext]_vars

\* the Quality Assurance agent
QaNext ==
    \/ QaValidateRecommendations
    \/ QaValidateImage
    \/ QaValidateStyling
    \/ QaValidateSafety
    \/ QaDecide
InitQa == WorkflowIdle /\ RetryIdle /\ AgentIdle /\ QaInit /\ RecIdle /\ VibeIdle /\ ImageQualityIdle /\ EnrichIdle /\ ParallelIdle /\ RouteIdle /\ HeroIdle /\ ConcurrentIdle /\ CheckpointIdle
SpecQa == InitQa /\ [][QaNext]_vars

\* the Recommendation agent
RecNext ==
    \/ GenerateRecommendations
InitRec == WorkflowIdle /\ RetryIdle /\ AgentIdle /\ QaIdle /\ RecInit /\ VibeIdle /\ ImageQualityIdle /\ EnrichIdle /\ ParallelIdle /\ RouteIdle /\ HeroIdle /\ ConcurrentIdle /\ CheckpointIdle
SpecRec == InitRec /\ [][RecNext]_vars

\* the Vibe Extraction workflow
VibeNext ==
    \/ VibeEnter
    \/ ExtractMoodNode
    \/ ExtractAestheticNode
    \/ ExtractDurationNode
    \/ ExtractInterestsNode
    \/ FinalizeVibeNode
InitVibe == WorkflowIdle /\ RetryIdle /\ AgentIdle /\ QaIdle /\ RecIdle /\ VibeInit /\ ImageQualityIdle /\ EnrichIdle /\ ParallelIdle /\ RouteIdle /\ HeroIdle /\ ConcurrentIdle /\ CheckpointIdle
SpecVibe == InitVibe /\ [][VibeNext]_vars

\* validate_image_quality
ImageQualityNext ==
    \/ CallValidateImageQuality
InitImageQuality == WorkflowIdle /\ RetryIdle /\ AgentIdle /\ QaIdle /\ RecIdle /\ VibeIdle /\ ImageQualityInit /\ EnrichIdle /\ ParallelIdle /\ RouteIdle /\ HeroIdle /\ ConcurrentIdle /\ CheckpointIdle
SpecImageQuality == InitImageQuality /\ [][ImageQualityNext]_vars

\* Content Enrichment
EnrichNext ==
    \/ CallRecommendProps
    \/ CallGeneratePhotographyAngles
InitEnrich == WorkflowIdle /\ RetryIdle /\ AgentIdle /\ QaIdle /\ RecIdle /\ VibeIdle /\ ImageQualityIdle /\ EnrichInit /\ ParallelIdle /\ RouteIdle /\ HeroIdle /\ ConcurrentIdle /\ CheckpointIdle
SpecEnrich == InitEnrich /\ [][EnrichNext]_vars

\* parallel_agent_execution
ParallelNext ==
    \/ CreateTasks
    \/ TaskCompletes
    \/ TaskFails
    \/ GatherReturns
InitParallel == WorkflowIdle /\ RetryIdle /\ AgentIdle /\ QaIdle /\ RecIdle /\ VibeIdle /\ ImageQualityIdle /\ EnrichIdle /\ ParallelInit /\ RouteIdle /\ HeroIdle /\ ConcurrentIdle /\ CheckpointIdle
SpecParallel == InitParallel /\ [][ParallelNext]_vars

\* route_to_agent
RouteNext ==
    \/ CallRouteToAgent
    \/ AgentWritesStep
InitRoute == WorkflowIdle /\ RetryIdle /\ AgentIdle /\ QaIdle /\ RecIdle /\ VibeIdle /\ ImageQualityIdle /\ EnrichIdle /\ ParallelIdle /\ RouteInit /\ HeroIdle /\ ConcurrentIdle /\ CheckpointIdle
SpecRoute == InitRoute /\ [][RouteNext]_vars

\* Hero background slider
HeroNext ==
    \/ HeroFirstEffects
    \/ HeroStartInterval
    \/ HeroClock
    \/ HeroTick
    \/ HeroUnmount
InitHero == WorkflowIdle /\ RetryIdle /\ AgentIdle /\ QaIdle /\ RecIdle /\ VibeIdle /\ ImageQualityIdle /\ EnrichIdle /\ ParallelIdle /\ RouteIdle /\ HeroInit /\ ConcurrentIdle /\ CheckpointIdle
SpecHero == InitHero /\ [][HeroNext]_vars

\* concurrent generate() calls
ConcurrentNext ==
    \/ GenerateStarts
    \/ RunNodeStarts
    \/ RunNodeCompletes
    \/ GenerateReturns
InitConcurrent == WorkflowIdle /\ RetryIdle /\ AgentIdle /\ QaIdle /\ RecIdle /\ VibeIdle /\ ImageQualityIdle /\ EnrichIdle /\ ParallelIdle /\ RouteIdle /\ HeroIdle /\ ConcurrentInit /\ CheckpointIdle
SpecConcurrent == InitConcurrent /\ [][ConcurrentNext]_vars

\* Supervisor: advance, checkpoint, resume
CheckpointNext ==
    \/ StageStarts
    \/ StageProgress
    \/ StageCompletes
    \/ SupervisorCompletes
    \/ ReapplyAdvance
    \/ Interrupt
    \/ Resume
InitCheckpoint == WorkflowIdle /\ RetryIdle /\ AgentIdle /\ QaIdle /\ RecIdle /\ VibeIdle /\ ImageQualityIdle /\ EnrichIdle /\ ParallelIdle /\ RouteIdle /\ HeroIdle /\ ConcurrentIdle /\ CheckpointInit
SpecCheckpoint == InitCheckpoint /\ [][CheckpointNext]_vars

====
